---- MODULE Spec2Model ----
(***************************************************************************)
(* A model of the skill ontology store, the skill matcher, the             *)
(* recommendation scorer and the learning path builder of                  *)
(* file-to-text-converter (src/src/models, src/src/services).              *)
(*                                                                         *)
(* Numbers.  The code computes with Python floats.  The model computes     *)
(* with exact fractions: an importance is a whole number of tenths         *)
(* (0.9 is 9), and every score is a record [num, den] standing for         *)
(* num/den, compared by cross-multiplication.  Python dicts keep insertion *)
(* order, so a dict is a sequence of records keyed by their id.            *)
(***************************************************************************)
EXTENDS Integers, Sequences, FiniteSets, TLC

VARIABLES
    skills,               \* SkillOntology.skills: id -> Skill, in insertion order
    jobs,                 \* SkillOntology.jobs: id -> Job, in insertion order
    skill_relationships,  \* SkillOntology.skill_relationships: id -> set of ids
    job_skill_matrix,     \* SkillOntology.job_skill_matrix: id -> requirement list
    synonym_index,        \* SkillMatcher.synonym_index: lowered synonym -> skill ids
    _cache,               \* PerplexityValidator._cache: cache key -> MarketValidation
    ret                   \* the last call: its name, its arguments, what it returned

vars ==
    <<skills, jobs, skill_relationships, job_skill_matrix, synonym_index,
      _cache, ret>>

ontology == <<skills, jobs, skill_relationships, job_skill_matrix>>

\* The service objects built on the ontology: the matcher and the validator.
services == <<synonym_index, _cache>>

(***************************************************************************)
(* Bounds of the model.                                                    *)
(***************************************************************************)
MaxReqs == 2          \* requirements per job

(***************************************************************************)
(* Fractions.                                                              *)
(***************************************************************************)
Frac(n, d) == [num |-> n, den |-> d]

FracGE(a, b) == a.num * b.den >= b.num * a.den

FracGT(a, b) == a.num * b.den > b.num * a.den

FracEQ(a, b) == a.num * b.den = b.num * a.den

RECURSIVE GCD(_, _)
GCD(a, b) == IF b = 0 THEN a ELSE GCD(b, a % b)

Abs(n) == IF n < 0 THEN 0 - n ELSE n

\* The same fraction in lowest terms, with a positive denominator.
Lowest(a) ==
    LET g == GCD(Abs(a.num), Abs(a.den))
    IN  IF a.den = 0 THEN a
        ELSE IF a.den < 0 THEN Frac((0 - a.num) \div g, (0 - a.den) \div g)
        ELSE Frac(a.num \div g, a.den \div g)

FracAdd(a, b) == Lowest(Frac(a.num * b.den + b.num * a.den, a.den * b.den))

FracMul(a, b) == Lowest(Frac(a.num * b.num, a.den * b.den))

FracDiv(a, b) == Lowest(Frac(a.num * b.den, a.den * b.num))

Whole(n) == Frac(n, 1)

Range(s) == {s[i] : i \in 1..Len(s)}

SeqsUpTo(S, n) == UNION {[1..k -> S] : k \in 0..n}

(***************************************************************************)
(* Python's list.sort(key=..., reverse=True) and sorted(..., reverse=True):*)
(* descending by key, and stable (equal keys keep their order).  Given the *)
(* keys of a list, DescendingOrder is the list of indices in sorted order: *)
(* element i comes after every element with a larger key and after the     *)
(* earlier elements with an equal key.                                     *)
(***************************************************************************)
SortedPosition(keys, i) ==
    1 + Cardinality({j \in 1..Len(keys) : FracGT(keys[j], keys[i])})
      + Cardinality({j \in 1..(i - 1) : FracEQ(keys[j], keys[i])})

DescendingOrder(keys) ==
    [p \in 1..Len(keys) |->
        CHOOSE i \in 1..Len(keys) : SortedPosition(keys, i) = p]

(***************************************************************************)
(* Dicts in insertion order: d[k] = v keeps the place of an existing key.  *)
(***************************************************************************)
Keys(d) == {d[i].id : i \in 1..Len(d)}

Lookup(d, k) == d[CHOOSE i \in 1..Len(d) : d[i].id = k]

DictSet(d, v) ==
    IF v.id \in Keys(d)
    THEN [i \in 1..Len(d) |-> IF d[i].id = v.id THEN v ELSE d[i]]
    ELSE Append(d, v)

MapSet(f, k, v) == [x \in DOMAIN f \cup {k} |-> IF x = k THEN v ELSE f[x]]

MapGet(f, k, default) == IF k \in DOMAIN f THEN f[k] ELSE default

EmptyMap == [x \in {} |-> {}]

(***************************************************************************)
(* ProficiencyLevel and the 1..4 scale of level_values.                    *)
(***************************************************************************)
ProficiencyLevel == {"beginner", "intermediate", "advanced", "expert"}

level_values(l) ==
    CASE l = "beginner" -> 1
      [] l = "intermediate" -> 2
      [] l = "advanced" -> 3
      [] l = "expert" -> 4

(***************************************************************************)
(* The records.                                                            *)
(***************************************************************************)
\* Python's None, where a record, a fraction or a string may stand.  It is
\* the empty tuple, so an absent string and the empty string are one value:
\* the code tests such strings for their truth value only.
None == <<>>

Skill(id, name, description, synonyms, related_skills) ==
    [id |-> id, name |-> name, description |-> description,
     synonyms |-> synonyms, related_skills |-> related_skills]

SkillRequirement(skill_id, importance, required_level) ==
    [skill_id |-> skill_id, importance |-> importance,
     required_level |-> required_level, is_mandatory |-> TRUE]

Job(id, title, onet_code, required_skills) ==
    [id |-> id, title |-> title, onet_code |-> onet_code,
     required_skills |-> required_skills]

UserSkill(skill_id, proficiency_level) ==
    [skill_id |-> skill_id, proficiency_level |-> proficiency_level]

SkillMatch(user_term, matched_skill, match_score, match_type, confidence) ==
    [user_term |-> user_term, matched_skill |-> matched_skill,
     match_score |-> match_score, match_type |-> match_type,
     confidence |-> confidence]

NoCall == [op |-> "none"]

Returned(v) == [kind |-> "return", value |-> v]

Raised(e) == [kind |-> "raise", exc |-> e]

(***************************************************************************)
(* The code is synchronous: a call starts when no other call is under way, *)
(* and its caller takes the result (TakeResult) before the next one.       *)
(***************************************************************************)
Idle == ret = NoCall

TakeResult ==
    /\ ~Idle
    /\ ret' = NoCall
    /\ UNCHANGED <<ontology, services>>

\* add_skill that also enters the skill in the set of each skill it lists.
add_skill_both_ways(skill) ==
    /\ Idle
    /\ skills' = DictSet(skills, skill)
    /\ skill_relationships' =
           [id \in DOMAIN skill_relationships \cup {skill.id} |->
               IF id = skill.id THEN skill.related_skills
               ELSE IF id \in skill.related_skills
               THEN skill_relationships[id] \cup {skill.id}
               ELSE skill_relationships[id]]
    /\ UNCHANGED <<jobs, job_skill_matrix, services, ret>>

add_skill(skill) ==
    /\ Idle
    /\ skills' = DictSet(skills, skill)
    /\ skill_relationships' =
           MapSet(skill_relationships, skill.id, skill.related_skills)
    /\ UNCHANGED <<jobs, job_skill_matrix, services, ret>>

add_job(job) ==
    /\ Idle
    /\ jobs' = DictSet(jobs, job)
    /\ job_skill_matrix' = MapSet(job_skill_matrix, job.id, job.required_skills)
    /\ UNCHANGED <<skills, skill_relationships, services, ret>>

(***************************************************************************)
(* SkillOntology.calculate_skill_similarity.                               *)
(***************************************************************************)
DirectlyRelatedEitherWay(skill1_id, skill2_id) ==
    \/ skill1_id \in MapGet(skill_relationships, skill2_id, {})
    \/ skill2_id \in MapGet(skill_relationships, skill1_id, {})

DirectlyRelated(skill1_id, skill2_id) ==
    skill1_id \in MapGet(skill_relationships, skill2_id, {})

calculate_skill_similarity(skill1_id, skill2_id) ==
    LET related1 == MapGet(skill_relationships, skill1_id, {})
        related2 == MapGet(skill_relationships, skill2_id, {})
        intersection == related1 \cap related2
        union == related1 \cup related2
    IN  IF skill1_id = skill2_id THEN Whole(1)
        ELSE IF DirectlyRelated(skill1_id, skill2_id) THEN Frac(8, 10)
        ELSE IF related1 # {} /\ related2 # {} /\ union # {}
             THEN FracMul(Frac(6, 10),
                          Frac(Cardinality(intersection), Cardinality(union)))
        ELSE Whole(0)

(***************************************************************************)
(* user_skill_dict = {us.skill_id: us for us in user_skills}: of several   *)
(* entries for one id the last one stays.                                  *)
(***************************************************************************)
UserSkillIds(user_skills) == {user_skills[i].skill_id : i \in 1..Len(user_skills)}

UserSkillDictEntry(user_skills, skill_id) ==
    user_skills[CHOOSE i \in 1..Len(user_skills) :
        /\ user_skills[i].skill_id = skill_id
        /\ \A j \in (i + 1)..Len(user_skills) : user_skills[j].skill_id # skill_id]

TotalImportance(reqs) ==
    LET RECURSIVE sum(_)
        sum(i) == IF i = 0 THEN 0 ELSE sum(i - 1) + reqs[i].importance
    IN  sum(Len(reqs))

(***************************************************************************)
(* SkillOntology.calculate_job_match_score.                                *)
(***************************************************************************)
ProficiencyMatchUncapped(user_level, required_level) ==
    Frac(user_level, required_level)

ProficiencyMatch(user_level, required_level) ==
    IF user_level >= required_level
    THEN Whole(1)
    ELSE Frac(user_level, required_level)

ZeroTotalScore == Whole(0)

\* The score of a job of the catalog (lines 167-202).
ScoreOfJob(user_skills, job) ==
    LET reqs == job.required_skills
        total_importance == TotalImportance(reqs)
        credit(req) ==
            LET user_skill == UserSkillDictEntry(user_skills, req.skill_id)
            IN  FracMul(Whole(req.importance),
                        ProficiencyMatch(
                            level_values(user_skill.proficiency_level),
                            level_values(req.required_level)))
        RECURSIVE match_score(_)
        match_score(i) ==
            IF i = 0 THEN Whole(0)
            ELSE IF reqs[i].skill_id \in UserSkillIds(user_skills)
                 THEN FracAdd(match_score(i - 1), credit(reqs[i]))
                 ELSE match_score(i - 1)
    IN  IF reqs = <<>> THEN Whole(0)
        ELSE IF total_importance = 0 THEN ZeroTotalScore
        ELSE FracDiv(match_score(Len(reqs)), Whole(total_importance))

\* As calculate_job_match_score, with a job that is not in the catalog
\* counted as one that asks for nothing: a full match.
calculate_job_match_score_vacuous(user_skills, job_id) ==
    IF job_id \notin Keys(jobs) THEN Whole(1)
    ELSE ScoreOfJob(user_skills, Lookup(jobs, job_id))

calculate_job_match_score(user_skills, job_id) ==
    IF job_id \notin Keys(jobs) THEN Whole(0)
    ELSE ScoreOfJob(user_skills, Lookup(jobs, job_id))

(***************************************************************************)
(* SkillOntology.identify_skill_gaps.                                      *)
(***************************************************************************)
SkillGap(skill_id, skill_name, current_level, required_level, importance, gap_score) ==
    [skill_id |-> skill_id, skill_name |-> skill_name,
     current_level |-> current_level, required_level |-> required_level,
     importance |-> importance, gap_score |-> gap_score]

GapKey(g) == FracMul(Whole(g.importance), g.gap_score)

GapDisplayName(skill_id) ==
    IF skill_id \in Keys(skills) THEN Lookup(skills, skill_id).name ELSE "Unknown"

LevelGapScore(user_level, required_level) ==
    Frac(required_level - user_level, required_level)

\* The gaps of one requirement: none or one (lines 213-248).
GapsOfRequirement(req, user_skills) ==
    LET skill_name == GapDisplayName(req.skill_id)
    IN  IF req.skill_id \in UserSkillIds(user_skills)
        THEN LET user_skill == UserSkillDictEntry(user_skills, req.skill_id)
                 user_level == level_values(user_skill.proficiency_level)
                 required_level == level_values(req.required_level)
             IN  IF user_level < required_level
                 THEN <<SkillGap(req.skill_id, skill_name,
                                 user_skill.proficiency_level, req.required_level,
                                 req.importance,
                                 LevelGapScore(user_level, required_level))>>
                 ELSE <<>>
        ELSE <<SkillGap(req.skill_id, skill_name, "None", req.required_level,
                        req.importance, Whole(1))>>

GapKeys(gaps) == [i \in 1..Len(gaps) |-> GapKey(gaps[i])]

\* sorted(gaps, key=...)[::-1]: descending, with equal keys in reverse order.
SortGapsReversed(gaps) ==
    LET n == Len(gaps)
        backwards == [i \in 1..n |-> gaps[n + 1 - i]]
        order == DescendingOrder(GapKeys(backwards))
    IN  [p \in 1..n |-> backwards[order[p]]]

SortGaps(gaps) ==
    LET order == DescendingOrder(GapKeys(gaps))
    IN  [p \in 1..Len(gaps) |-> gaps[order[p]]]

identify_skill_gaps(user_skills, job_id) ==
    IF job_id \notin Keys(jobs) THEN <<>>
    ELSE LET reqs == Lookup(jobs, job_id).required_skills
             RECURSIVE gaps(_)
             gaps(i) ==
                 IF i = 0 THEN <<>>
                 ELSE gaps(i - 1) \o GapsOfRequirement(reqs[i], user_skills)
         IN  SortGaps(gaps(Len(reqs)))

(***************************************************************************)
(* Python str.  Where the code looks inside a string (lower, strip, in,    *)
(* SequenceMatcher, re.findall) the string is a sequence of one-character  *)
(* strings.                                                                *)
(***************************************************************************)
ascii_uppercase ==
    <<"A", "B", "C", "D", "E", "F", "G", "H", "I", "J", "K", "L", "M", "N",
      "O", "P", "Q", "R", "S", "T", "U", "V", "W", "X", "Y", "Z">>

ascii_lowercase ==
    <<"a", "b", "c", "d", "e", "f", "g", "h", "i", "j", "k", "l", "m", "n",
      "o", "p", "q", "r", "s", "t", "u", "v", "w", "x", "y", "z">>

digits == {"0", "1", "2", "3", "4", "5", "6", "7", "8", "9"}

whitespace == {" "}

Min(S) == CHOOSE x \in S : \A y \in S : x <= y

Max(S) == CHOOSE x \in S : \A y \in S : x >= y

LowerCharacter(c) ==
    IF \E i \in 1..26 : ascii_uppercase[i] = c
    THEN ascii_lowercase[CHOOSE i \in 1..26 : ascii_uppercase[i] = c]
    ELSE c

lower(s) == [i \in 1..Len(s) |-> LowerCharacter(s[i])]

strip(s) ==
    LET inked == {i \in 1..Len(s) : s[i] \notin whitespace}
    IN  IF inked = {} THEN <<>> ELSE SubSeq(s, Min(inked), Max(inked))

\* Python's `sub in s` on strings.
Contains(sub, s) ==
    \E i \in 0..(Len(s) - Len(sub)) : SubSeq(s, i + 1, i + Len(sub)) = sub

Join(a, sep, b) == a \o sep \o b

(***************************************************************************)
(* difflib.SequenceMatcher(None, a, b).ratio(): 2 x M / T, with T the sum  *)
(* of the two lengths and M the characters in the matching blocks: the     *)
(* longest common block, the one that starts earliest in a and then        *)
(* earliest in b, and the same again to its left and to its right.  The    *)
(* ratio of two empty strings is 1.0.                                      *)
(***************************************************************************)
CommonBlocks(a, b) ==
    {blk \in (1..Len(a)) \X (1..Len(b)) \X (1..Len(a)) :
        /\ blk[1] + blk[3] - 1 <= Len(a)
        /\ blk[2] + blk[3] - 1 <= Len(b)
        /\ SubSeq(a, blk[1], blk[1] + blk[3] - 1)
               = SubSeq(b, blk[2], blk[2] + blk[3] - 1)}

find_longest_match(a, b) ==
    CHOOSE x \in CommonBlocks(a, b) :
        \A y \in CommonBlocks(a, b) :
            \/ x[3] > y[3]
            \/ x[3] = y[3] /\ x[1] < y[1]
            \/ x[3] = y[3] /\ x[1] = y[1] /\ x[2] <= y[2]

RECURSIVE MatchingCharacters(_, _)
MatchingCharacters(a, b) ==
    IF CommonBlocks(a, b) = {} THEN 0
    ELSE LET x == find_longest_match(a, b)
         IN  x[3]
             + MatchingCharacters(SubSeq(a, 1, x[1] - 1),
                                  SubSeq(b, 1, x[2] - 1))
             + MatchingCharacters(SubSeq(a, x[1] + x[3], Len(a)),
                                  SubSeq(b, x[2] + x[3], Len(b)))

ratio(a, b) ==
    IF Len(a) + Len(b) = 0 THEN Whole(1)
    ELSE Frac(2 * MatchingCharacters(a, b), Len(a) + Len(b))

FracMax(a, b) == IF FracGE(a, b) THEN a ELSE b

FracMin(a, b) == IF FracGE(a, b) THEN b ELSE a

(***************************************************************************)
(* SkillMatcher._extract_keywords: the words of the text (re.findall of    *)
(* \b\w+\b, the maximal runs of word characters) that are longer than two  *)
(* characters and are not stop words.                                      *)
(***************************************************************************)
stop_words ==
    {<<"t", "h", "e">>,
     <<"a">>,
     <<"a", "n">>,
     <<"a", "n", "d">>,
     <<"o", "r">>,
     <<"b", "u", "t">>,
     <<"i", "n">>,
     <<"o", "n">>,
     <<"a", "t">>,
     <<"t", "o">>,
     <<"f", "o", "r">>,
     <<"o", "f">>,
     <<"w", "i", "t", "h">>,
     <<"b", "y">>,
     <<"f", "r", "o", "m">>,
     <<"u", "p">>,
     <<"a", "b", "o", "u", "t">>,
     <<"i", "n", "t", "o">>,
     <<"t", "h", "r", "o", "u", "g", "h">>,
     <<"d", "u", "r", "i", "n", "g">>,
     <<"h", "o", "w">>,
     <<"w", "h", "e", "n">>,
     <<"w", "h", "e", "r", "e">>,
     <<"w", "h", "y">>,
     <<"w", "h", "a", "t">>,
     <<"w", "h", "i", "c", "h">>,
     <<"w", "h", "o">>,
     <<"w", "h", "o", "m">>,
     <<"t", "h", "i", "s">>,
     <<"t", "h", "a", "t">>,
     <<"t", "h", "e", "s", "e">>,
     <<"t", "h", "o", "s", "e">>,
     <<"a", "m">>,
     <<"i", "s">>,
     <<"a", "r", "e">>,
     <<"w", "a", "s">>,
     <<"w", "e", "r", "e">>,
     <<"b", "e", "e", "n">>,
     <<"b", "e">>,
     <<"h", "a", "v", "e">>,
     <<"h", "a", "s">>,
     <<"h", "a", "d">>,
     <<"d", "o">>,
     <<"d", "o", "e", "s">>,
     <<"d", "i", "d">>,
     <<"w", "i", "l", "l">>,
     <<"w", "o", "u", "l", "d">>,
     <<"s", "h", "o", "u", "l", "d">>,
     <<"c", "o", "u", "l", "d">>,
     <<"m", "a", "y">>,
     <<"m", "i", "g", "h", "t">>,
     <<"m", "u", "s", "t">>,
     <<"c", "a", "n">>,
     <<"g", "o", "o", "d">>,
     <<"w", "e", "l", "l">>,
     <<"v", "e", "r", "y">>}

WordCharacters ==
    Range(ascii_lowercase) \cup Range(ascii_uppercase) \cup digits \cup {"_"}

RECURSIVE Words(_)
Words(text) ==
    IF text = <<>> THEN <<>>
    ELSE IF Head(text) \notin WordCharacters THEN Words(Tail(text))
    ELSE LET breaks == {i \in 1..Len(text) : text[i] \notin WordCharacters}
             end == IF breaks = {} THEN Len(text) ELSE Min(breaks) - 1
         IN  <<SubSeq(text, 1, end)>> \o Words(SubSeq(text, end + 1, Len(text)))

_extract_keywords(text) ==
    SelectSeq(Words(lower(text)), LAMBDA w : w \notin stop_words /\ Len(w) > 2)

(***************************************************************************)
(* SkillMatcher.__init__ and _build_synonym_index: the index is built once,*)
(* from the skills the ontology holds when the matcher is constructed.     *)
(* Each lowered synonym maps to the ids of the skills that list it, in     *)
(* ontology order.                                                         *)
(***************************************************************************)
RECURSIVE SynonymEntries(_)
SynonymEntries(n) ==
    IF n = 0 THEN <<>>
    ELSE SynonymEntries(n - 1)
         \o [j \in 1..Len(skills[n].synonyms) |->
                [synonym_lower |-> lower(skills[n].synonyms[j]),
                 skill_id |-> skills[n].id]]

_build_synonym_index ==
    LET entries == SynonymEntries(Len(skills))
    IN  [synonym_lower \in {e.synonym_lower : e \in Range(entries)} |->
            LET listed ==
                    SelectSeq(entries,
                              LAMBDA e : e.synonym_lower = synonym_lower)
            IN  [i \in 1..Len(listed) |-> listed[i].skill_id]]

SkillMatcher_init ==
    /\ Idle
    /\ synonym_index' = _build_synonym_index
    /\ UNCHANGED <<ontology, _cache, ret>>

(***************************************************************************)
(* SkillOntology.find_skill_by_name: the first skill with the name, or     *)
(* else the first skill with the synonym, letter case aside.               *)
(***************************************************************************)
find_skill_by_name(name) ==
    LET name_lower == lower(name)
        named == {i \in 1..Len(skills) : lower(skills[i].name) = name_lower}
        known_as == {i \in 1..Len(skills) :
                        \E k \in 1..Len(skills[i].synonyms) :
                            lower(skills[i].synonyms[k]) = name_lower}
    IN  IF named # {} THEN skills[Min(named)]
        ELSE IF known_as # {} THEN skills[Min(known_as)]
        ELSE None

(***************************************************************************)
(* The four matching stages.  Each returns a SkillMatch or None.           *)
(***************************************************************************)
_exact_match(user_term) ==
    LET user_term_lower == strip(lower(user_term))
        named == {i \in 1..Len(skills) :
                     lower(skills[i].name) = user_term_lower}
    IN  IF named = {} THEN None
        ELSE SkillMatch(user_term, skills[Min(named)], Whole(1), "exact",
                        Whole(1))

_synonym_match(user_term) ==
    LET user_term_lower == strip(lower(user_term))
    IN  IF /\ user_term_lower \in DOMAIN synonym_index
           /\ synonym_index[user_term_lower] # <<>>
        THEN SkillMatch(user_term,
                        Lookup(skills, synonym_index[user_term_lower][1]),
                        Frac(9, 10), "synonym", Frac(9, 10))
        ELSE None

\* A name score raised to 0.8 if the term is part of the name, or else to
\* 0.7 if the name is part of the term.
Boosted(score, term_in_name, name_in_term) ==
    IF term_in_name THEN FracMax(score, Frac(8, 10))
    ELSE IF name_in_term THEN FracMax(score, Frac(7, 10))
    ELSE score

name_score(user_term_lower, name_lower) ==
    Boosted(ratio(user_term_lower, name_lower),
            Contains(user_term_lower, name_lower),
            Contains(name_lower, user_term_lower))

FuzzyThreshold == Frac(4, 10)

\* One turn of the loop of _fuzzy_match: the best so far, or this skill.
FuzzyBetter(best, skill, score) ==
    IF FracGT(score, best.best_score) /\ FracGT(score, FuzzyThreshold)
    THEN [best_match |-> skill, best_score |-> score]
    ELSE best

\* The loop of _fuzzy_match after the first n skills.
RECURSIVE FuzzyBest(_, _)
FuzzyBest(user_term_lower, n) ==
    IF n = 0 THEN [best_match |-> None, best_score |-> Whole(0)]
    ELSE FuzzyBetter(FuzzyBest(user_term_lower, n - 1), skills[n],
                     name_score(user_term_lower, lower(skills[n].name)))

FuzzyResult(user_term, best) ==
    IF best.best_match # None
    THEN SkillMatch(user_term, best.best_match, best.best_score, "fuzzy",
                    FracMul(best.best_score, Frac(8, 10)))
    ELSE None

_fuzzy_match(user_term) ==
    FuzzyResult(user_term, FuzzyBest(strip(lower(user_term)), Len(skills)))

\* sum(1 for keyword in keywords if keyword in skill_text)
KeywordMatches(keywords, skill) ==
    LET skill_text == lower(Join(skill.name, <<" ">>, skill.description))
    IN  Cardinality({k \in 1..Len(keywords) :
                        Contains(keywords[k], skill_text)})

SemanticThreshold == Frac(3, 10)

\* One turn of the loop of _semantic_match: the best so far, or this skill.
SemanticBetter(best, skill, matches, keywords) ==
    IF matches > 0 /\ FracGT(Frac(matches, Len(keywords)), best.best_score)
    THEN [best_match |-> skill, best_score |-> Frac(matches, Len(keywords))]
    ELSE best

\* The loop of _semantic_match after the first n skills.
RECURSIVE SemanticBest(_, _)
SemanticBest(keywords, n) ==
    IF n = 0 THEN [best_match |-> None, best_score |-> Whole(0)]
    ELSE SemanticBetter(SemanticBest(keywords, n - 1), skills[n],
                        KeywordMatches(keywords, skills[n]), keywords)

SemanticResult(user_term, best) ==
    IF best.best_match # None /\ FracGT(best.best_score, SemanticThreshold)
    THEN SkillMatch(user_term, best.best_match, best.best_score, "semantic",
                    FracMul(best.best_score, Frac(6, 10)))
    ELSE None

_semantic_match(user_term) ==
    SemanticResult(user_term,
                   SemanticBest(_extract_keywords(strip(lower(user_term))),
                                Len(skills)))

(***************************************************************************)
(* SkillMatcher.match_user_skills: for each description the first stage    *)
(* that returns a match (a SkillMatch is always truthy), and nothing for a *)
(* description no stage matches.                                           *)
(***************************************************************************)
\* fuzzy or semantic or exact or synonym
FuzzyBeforeExact(exact, synonym, fuzzy, semantic) ==
    IF fuzzy # None THEN fuzzy
    ELSE IF semantic # None THEN semantic
    ELSE IF exact # None THEN exact
    ELSE synonym

\* exact or synonym or fuzzy or semantic
FirstMatch(exact, synonym, fuzzy, semantic) ==
    IF exact # None THEN exact
    ELSE IF synonym # None THEN synonym
    ELSE IF fuzzy # None THEN fuzzy
    ELSE semantic

Cascade(description) ==
    FirstMatch(_exact_match(description), _synonym_match(description),
               _fuzzy_match(description), _semantic_match(description))

\* matches.append(match), whether or not a stage gave a match.
MatchedOrNone(match) == <<match>>

\* if match: matches.append(match)
Matched(match) == IF match # None THEN <<match>> ELSE <<>>

RECURSIVE match_user_skills(_)
match_user_skills(user_descriptions) ==
    IF user_descriptions = <<>> THEN <<>>
    ELSE Matched(Cascade(Head(user_descriptions)))
         \o match_user_skills(Tail(user_descriptions))

(***************************************************************************)
(* SkillMatcher._find_transferable_skill.  The code walks the set of the   *)
(* user's skill ids in an order Python does not fix and returns the first  *)
(* id that qualifies: the model gives the set of the ids it can return     *)
(* (none is returned exactly when the set is empty).                       *)
(***************************************************************************)
TransferThreshold == Frac(6, 10)

_find_transferable_skill(required_skill_id, user_skill_ids) ==
    LET direct ==
            IF required_skill_id \in DOMAIN skill_relationships
            THEN {u \in user_skill_ids :
                      u \in skill_relationships[required_skill_id]}
            ELSE {}
        similar ==
            {u \in user_skill_ids :
                 FracGT(calculate_skill_similarity(required_skill_id, u),
                        TransferThreshold)}
    IN  IF direct # {} THEN direct ELSE similar

(***************************************************************************)
(* SkillMatcher.find_matching_jobs.                                        *)
(***************************************************************************)
PartialCredit == Frac(7, 10)

FirstMatchFor(skill_matches, skill_id) ==
    skill_matches[CHOOSE i \in 1..Len(skill_matches) :
        /\ skill_matches[i].matched_skill.id = skill_id
        /\ \A j \in 1..(i - 1) : skill_matches[j].matched_skill.id # skill_id]

\* As ScanRequirement, with the name of a requirement that a transferable
\* skill covers recorded under the missing skills as well.
ScanRequirementAlsoMissing(acc, req, skill_matches, user_skill_ids) ==
    IF acc.raised THEN acc
    ELSE IF req.skill_id \in user_skill_ids
    THEN [acc EXCEPT
            !.matched_skills = Append(@, FirstMatchFor(skill_matches, req.skill_id)),
            !.matched_importance = FracAdd(@, Whole(req.importance))]
    ELSE IF req.skill_id \notin Keys(skills)
    THEN [acc EXCEPT !.raised = TRUE]
    ELSE IF _find_transferable_skill(req.skill_id, user_skill_ids) # {}
    THEN [acc EXCEPT
            !.transferable_skills = Append(@, Lookup(skills, req.skill_id).name),
            !.missing_skills = Append(@, Lookup(skills, req.skill_id).name),
            !.matched_importance =
                FracAdd(@, FracMul(Whole(req.importance), PartialCredit))]
    ELSE [acc EXCEPT
            !.missing_skills = Append(@, Lookup(skills, req.skill_id).name)]

\* One pass of the loop over job.required_skills (lines 194-208).
ScanRequirement(acc, req, skill_matches, user_skill_ids) ==
    IF acc.raised THEN acc
    ELSE IF req.skill_id \in user_skill_ids
    THEN [acc EXCEPT
            !.matched_skills = Append(@, FirstMatchFor(skill_matches, req.skill_id)),
            !.matched_importance = FracAdd(@, Whole(req.importance))]
    ELSE IF req.skill_id \notin Keys(skills)
    THEN [acc EXCEPT !.raised = TRUE]       \* self.ontology.skills[...]: KeyError
    ELSE IF _find_transferable_skill(req.skill_id, user_skill_ids) # {}
    THEN [acc EXCEPT
            !.transferable_skills = Append(@, Lookup(skills, req.skill_id).name),
            !.matched_importance =
                FracAdd(@, FracMul(Whole(req.importance), PartialCredit))]
    ELSE [acc EXCEPT
            !.missing_skills = Append(@, Lookup(skills, req.skill_id).name)]

ScanJob(job, skill_matches, user_skill_ids) ==
    LET reqs == job.required_skills
        RECURSIVE scan(_)
        scan(i) ==
            IF i = 0
            THEN [matched_skills |-> <<>>, missing_skills |-> <<>>,
                  transferable_skills |-> <<>>, matched_importance |-> Whole(0),
                  raised |-> FALSE]
            ELSE ScanRequirement(scan(i - 1), reqs[i], skill_matches, user_skill_ids)
    IN  scan(Len(reqs))

JobMatch(job, match_score, acc) ==
    [job |-> job, match_score |-> match_score,
     matched_skills |-> acc.matched_skills,
     missing_skills |-> acc.missing_skills,
     transferable_skills |-> acc.transferable_skills]

\* The job matches as the loop over the catalog appended them: no sort.
AsScanned(job_matches) == job_matches

SortJobMatches(job_matches) ==
    LET keys == [i \in 1..Len(job_matches) |-> job_matches[i].match_score]
        order == DescendingOrder(keys)
    IN  [p \in 1..Len(job_matches) |-> job_matches[order[p]]]

find_matching_jobs(skill_matches, min_match_score) ==
    LET user_skill_ids ==
            {skill_matches[i].matched_skill.id : i \in 1..Len(skill_matches)}
        considered == SelectSeq(jobs, LAMBDA job : job.required_skills # <<>>)
        acc(job) == ScanJob(job, skill_matches, user_skill_ids)
        total(job) == TotalImportance(job.required_skills)
        score(job) == FracDiv(acc(job).matched_importance, Whole(total(job)))
        kept == SelectSeq(considered,
                    LAMBDA job : /\ total(job) > 0
                                 /\ FracGE(score(job), min_match_score))
        job_matches == [i \in 1..Len(kept) |->
                           JobMatch(kept[i], score(kept[i]), acc(kept[i]))]
    IN  IF \E i \in 1..Len(considered) : acc(considered[i]).raised
        THEN Raised("KeyError")
        ELSE Returned(SortJobMatches(job_matches))

(***************************************************************************)
(* The records of the recommender.  A JobProjection keeps the fields the   *)
(* recommender reads.  change_percent is a fraction or None.  The code     *)
(* reads median_annual_wage only after testing its truth value, for which  *)
(* None and 0 are the same: a wage is a whole number, 0 if there is none.  *)
(* A MarketValidation is kept without its last_updated time stamp: whether *)
(* a cached one is less than a day old is an input of the call that reads  *)
(* it.                                                                     *)
(***************************************************************************)
JobProjection(occupation_code, occupation_title, change_percent, median_annual_wage, typical_education) ==
    [occupation_code |-> occupation_code,
     occupation_title |-> occupation_title,
     change_percent |-> change_percent,
     median_annual_wage |-> median_annual_wage,
     typical_education |-> typical_education]

MarketValidation(query, response, sources, confidence, is_current) ==
    [query |-> query, response |-> response, sources |-> sources,
     confidence |-> confidence, is_current |-> is_current]

CareerRecommendation(job, match_score, skill_match, market_data, market_validation, explanation, confidence, recommended_actions, salary_range, growth_outlook) ==
    [job |-> job, match_score |-> match_score, skill_match |-> skill_match,
     market_data |-> market_data, market_validation |-> market_validation,
     explanation |-> explanation, confidence |-> confidence,
     recommended_actions |-> recommended_actions,
     salary_range |-> salary_range, growth_outlook |-> growth_outlook]

\* Python's truth value of an Optional number: None and 0 are false.
Truthy(x) == x # None /\ x.num # 0

Positive(x) == x.num * x.den > 0

Negative(x) == x.num * x.den < 0

FracSub(a, b) == Lowest(Frac(a.num * b.den - b.num * a.den, a.den * b.den))

FirstN(list, n) == SubSeq(list, 1, IF Len(list) < n THEN Len(list) ELSE n)

(***************************************************************************)
(* PerplexityValidator._assess_source_confidence.  The sums are those of   *)
(* the code except one: with a government source named in the content and *)
(* no citation, 0.3 + 0.4 - 0.3 is 0.39999999999999997 in binary floating  *)
(* point, under the 0.4 it is later compared with, and the model returns a *)
(* value just under 0.4 there.                                             *)
(***************************************************************************)
high_quality ==
    {<<"b", "l", "s", ".", "g", "o", "v">>,
     <<"b", "u", "r", "e", "a", "u", " ", "o", "f", " ", "l", "a", "b", "o", "r", " ", "s", "t", "a", "t", "i", "s", "t", "i", "c", "s">>,
     <<"i", "n", "d", "e", "e", "d", ".", "c", "o", "m">>,
     <<"g", "l", "a", "s", "s", "d", "o", "o", "r", ".", "c", "o", "m">>,
     <<"l", "i", "n", "k", "e", "d", "i", "n", ".", "c", "o", "m">>,
     <<"p", "a", "y", "s", "c", "a", "l", "e", ".", "c", "o", "m">>}

gov_sources ==
    {<<"b", "l", "s", ".", "g", "o", "v">>,
     <<".", "g", "o", "v">>,
     <<"b", "u", "r", "e", "a", "u", " ", "o", "f", " ", "l", "a", "b", "o", "r", " ", "s", "t", "a", "t", "i", "s", "t", "i", "c", "s">>,
     <<"d", "e", "p", "a", "r", "t", "m", "e", "n", "t", " ", "o", "f", " ", "l", "a", "b", "o", "r">>,
     <<"o", "n", "e", "t">>}

industry_sources ==
    {<<"m", "c", "k", "i", "n", "s", "e", "y">>,
     <<"d", "e", "l", "o", "i", "t", "t", "e">>,
     <<"p", "w", "c">>,
     <<"f", "o", "r", "b", "e", "s">>,
     <<"h", "a", "r", "v", "a", "r", "d", " ", "b", "u", "s", "i", "n", "e", "s", "s", " ", "r", "e", "v", "i", "e", "w">>,
     <<"m", "i", "t">>}

\* ' '.join(sources)
RECURSIVE JoinWithBlanks(_)
JoinWithBlanks(strings) ==
    IF strings = <<>> THEN <<>>
    ELSE IF Len(strings) = 1 THEN strings[1]
    ELSE strings[1] \o <<" ">> \o JoinWithBlanks(Tail(strings))

JustUnder(x) == Frac(x.num * 10000 - 1, x.den * 10000)

_assess_source_confidence(sources, content) ==
    LET source_text ==
            lower(JoinWithBlanks(sources)) \o <<" ">> \o lower(content)
        named(list) == \E source \in list : Contains(source, source_text)
        tenths == 3 + (IF named(gov_sources) THEN 4 ELSE 0)
                    + (IF named(high_quality) THEN 2 ELSE 0)
                    + (IF named(industry_sources) THEN 1 ELSE 0)
                    + (IF Len(sources) >= 3 THEN 1 ELSE 0)
        confidence ==
            IF Len(sources) = 2 THEN Frac(tenths * 10 + 5, 100)
            ELSE Frac(tenths, 10)
    IN  IF sources = <<>>
        THEN IF tenths = 7 THEN JustUnder(Frac(4, 10))
             ELSE FracMax(Frac(1, 10), FracSub(confidence, Frac(3, 10)))
        ELSE FracMin(Whole(1), confidence)

(***************************************************************************)
(* PerplexityValidator.validate_job_outlook.  The oracle's reply is an     *)
(* input: a time-out, an HTTP error status, a body that is not the         *)
(* expected JSON, or a body with a content and citations.  Given the       *)
(* cache, the reply and the cache keys whose entries are less than a day   *)
(* old, the result is the validation returned and the cache afterwards.    *)
(***************************************************************************)
\* f"outlook_{occupation_title.lower().replace(' ', '_')}"
cache_key(occupation_title) ==
    <<"o", "u", "t", "l", "o", "o", "k", "_">>
    \o [i \in 1..Len(occupation_title) |->
           IF LowerCharacter(occupation_title[i]) = " " THEN "_"
           ELSE LowerCharacter(occupation_title[i])]

\* The query names the occupation and, if there is one, the projection's
\* growth and wage.
Query(occupation_title, bls_projection) ==
    [occupation_title |-> occupation_title,
     note |-> IF bls_projection = None THEN None
              ELSE [change_percent |-> bls_projection.change_percent,
                    median_annual_wage |->
                        bls_projection.median_annual_wage]]

\* The url of a citation, or else its title, or else nothing.
RECURSIVE SourcesOf(_)
SourcesOf(citations) ==
    IF citations = <<>> THEN <<>>
    ELSE (IF "url" \in DOMAIN Head(citations) THEN <<Head(citations).url>>
          ELSE IF "title" \in DOMAIN Head(citations)
          THEN <<Head(citations).title>>
          ELSE <<>>)
         \o SourcesOf(Tail(citations))

OracleFailures == {"timeout", "http error", "malformed payload"}

\* The except branch: a validation of low confidence.
ValidationOnError(occupation_title, bls_projection, reply) ==
    MarketValidation(Query(occupation_title, bls_projection),
                     [unable_to_validate |-> reply.kind], <<>>,
                     Frac(1, 10), FALSE)

ValidationOf(occupation_title, bls_projection, reply) ==
    LET sources == SourcesOf(reply.citations)
    IN  MarketValidation(
            Query(occupation_title, bls_projection), reply.content, sources,
            _assess_source_confidence(sources, reply.content),
            /\ \/ Contains(<<"2", "0", "2", "4">>, reply.content)
               \/ Contains(<<"2", "0", "2", "5">>, reply.content)
            /\ Len(sources) > 0)

\* self._cache[cache_key] = validation; return validation
Validated(cache, key, validation) ==
    [validation |-> validation, cache |-> MapSet(cache, key, validation),
     cached |-> FALSE]

validate_job_outlook(cache, occupation_title, bls_projection, reply, fresh_keys) ==
    IF /\ cache_key(occupation_title) \in DOMAIN cache
       /\ cache_key(occupation_title) \in fresh_keys
    THEN [validation |-> cache[cache_key(occupation_title)], cache |-> cache,
          cached |-> TRUE]
    ELSE IF reply.kind \in OracleFailures
    THEN [validation |->
              ValidationOnError(occupation_title, bls_projection, reply),
          cache |-> cache, cached |-> FALSE]
    ELSE Validated(cache, cache_key(occupation_title),
                   ValidationOf(occupation_title, bls_projection, reply))

(***************************************************************************)
(* CareerRecommendationEngine._create_recommendation: the market           *)
(* confidence, from the growth figure and then from the validation.        *)
(***************************************************************************)
NeutralConfidence == Frac(5, 10)

\* min(0.9, 0.5 + g / 50)
PositiveGrowthConfidence(g) ==
    FracMin(Frac(9, 10), FracAdd(NeutralConfidence, FracDiv(g, Whole(50))))

\* max(0.1, 0.5 + g / 100)
NegativeGrowthConfidence(g) ==
    FracMax(Frac(1, 10), FracAdd(NeutralConfidence, FracDiv(g, Whole(100))))

GrowthConfidence(bls_projection) ==
    IF bls_projection = None THEN NeutralConfidence
    ELSE LET g == bls_projection.change_percent
         IN  IF Truthy(g) /\ Positive(g) THEN PositiveGrowthConfidence(g)
             ELSE IF Truthy(g) /\ Negative(g) THEN NegativeGrowthConfidence(g)
             ELSE NeutralConfidence

\* The first threshold read as confidence >= 0.7.
ValidatedConfidenceFromSeven(market_confidence, market_validation) ==
    IF market_validation = None THEN market_confidence
    ELSE IF /\ FracGE(market_validation.confidence, Frac(7, 10))
            /\ market_validation.is_current
    THEN FracMin(Frac(95, 100), FracAdd(market_confidence, Frac(2, 10)))
    ELSE IF FracGT(Frac(4, 10), market_validation.confidence)
    THEN FracMax(Frac(2, 10), FracSub(market_confidence, Frac(2, 10)))
    ELSE market_confidence

ValidatedConfidence(market_confidence, market_validation) ==
    IF market_validation = None THEN market_confidence
    ELSE IF /\ FracGT(market_validation.confidence, Frac(7, 10))
            /\ market_validation.is_current
    THEN FracMin(Frac(95, 100), FracAdd(market_confidence, Frac(2, 10)))
    ELSE IF FracGT(Frac(4, 10), market_validation.confidence)
    THEN FracMax(Frac(2, 10), FracSub(market_confidence, Frac(2, 10)))
    ELSE market_confidence

\* (base_confidence * 0.6) + (market_confidence * 0.4)
OverallConfidence(base_confidence, market_confidence) ==
    FracAdd(FracMul(base_confidence, Frac(6, 10)),
            FracMul(market_confidence, Frac(4, 10)))

(***************************************************************************)
(* _generate_explanation.  The text is a list of sentences, each kept as   *)
(* the template it comes from and what the template is filled with (the    *)
(* percentage printed in the first sentence is left out).  Comparing a     *)
(* change_percent of None with 10 raises TypeError.                        *)
(***************************************************************************)
GrowthSentence(bls_projection) ==
    IF bls_projection = None THEN <<>>
    ELSE IF FracGT(bls_projection.change_percent, Whole(10))
    THEN <<[template |-> "strong growth",
            with |-> bls_projection.change_percent]>>
    ELSE IF FracGT(bls_projection.change_percent, Whole(0))
    THEN <<[template |-> "moderate growth",
            with |-> bls_projection.change_percent]>>
    ELSE <<[template |-> "challenges",
            with |-> bls_projection.change_percent]>>

ValidationSentence(market_validation) ==
    IF market_validation # None
       /\ FracGT(market_validation.confidence, Frac(6, 10))
    THEN IF market_validation.is_current
         THEN <<[template |-> "confirms strong demand"]>>
         ELSE <<[template |-> "stable demand"]>>
    ELSE <<>>

_generate_explanation(job, job_match, bls_projection, market_validation) ==
    IF bls_projection # None /\ bls_projection.change_percent = None
    THEN Raised("TypeError")
    ELSE Returned(
        <<[template |-> "skill match", title |-> job.title,
           with |-> FirstN([i \in 1..Len(job_match.matched_skills) |->
                               job_match.matched_skills[i].matched_skill.name],
                           3)]>>
        \o (IF job_match.missing_skills # <<>>
            THEN <<[template |-> "consider developing",
                    with |-> FirstN(job_match.missing_skills, 3)]>>
            ELSE <<>>)
        \o GrowthSentence(bls_projection)
        \o ValidationSentence(market_validation))

(***************************************************************************)
(* _generate_actions, _determine_salary_range, _determine_growth_outlook.  *)
(***************************************************************************)
GeneralActions ==
    <<[action |-> "Build a portfolio showcasing relevant projects"],
      [action |-> "Network with professionals in this field"],
      [action |-> "Apply to entry-level positions to gain experience"]>>

\* As _generate_actions, with a 'Learn' action for every missing skill.
_generate_actions_all_missing(job_match, bls_projection) ==
    LET missing == job_match.missing_skills
        learn == [i \in 1..Len(missing) |->
                     [action |-> "Learn", skill |-> missing[i]]]
        highlight ==
            IF job_match.transferable_skills # <<>>
            THEN <<[action |-> "Highlight transferable skills"]>>
            ELSE <<>>
        consider ==
            IF /\ bls_projection # None
               /\ bls_projection.typical_education # None
            THEN <<[action |-> "Consider",
                    education |-> lower(bls_projection.typical_education)]>>
            ELSE <<>>
    IN  FirstN(learn \o highlight \o consider \o GeneralActions, 5)

_generate_actions(job_match, bls_projection) ==
    LET missing == FirstN(job_match.missing_skills, 3)
        learn == [i \in 1..Len(missing) |->
                     [action |-> "Learn", skill |-> missing[i]]]
        highlight ==
            IF job_match.transferable_skills # <<>>
            THEN <<[action |-> "Highlight transferable skills"]>>
            ELSE <<>>
        consider ==
            IF /\ bls_projection # None
               /\ bls_projection.typical_education # None
            THEN <<[action |-> "Consider",
                    education |-> lower(bls_projection.typical_education)]>>
            ELSE <<>>
    IN  FirstN(learn \o highlight \o consider \o GeneralActions, 5)

\* (int(median * 0.75), int(median * 1.25))
_determine_salary_range(bls_projection, market_validation) ==
    IF /\ bls_projection # None
       /\ bls_projection.median_annual_wage # 0
    THEN <<(bls_projection.median_annual_wage * 3) \div 4,
           (bls_projection.median_annual_wage * 5) \div 4>>
    ELSE None

\* As _determine_growth_outlook, with the thresholds 15 and 7 exclusive.
_determine_growth_outlook_above(bls_projection, market_validation) ==
    IF bls_projection # None /\ Truthy(bls_projection.change_percent)
    THEN LET growth == bls_projection.change_percent
         IN  IF FracGT(growth, Whole(15)) THEN "excellent"
             ELSE IF FracGT(growth, Whole(7)) THEN "good"
             ELSE IF FracGE(growth, Whole(0)) THEN "fair"
             ELSE "poor"
    ELSE "fair"

_determine_growth_outlook(bls_projection, market_validation) ==
    IF bls_projection # None /\ Truthy(bls_projection.change_percent)
    THEN LET growth == bls_projection.change_percent
         IN  IF FracGE(growth, Whole(15)) THEN "excellent"
             ELSE IF FracGE(growth, Whole(7)) THEN "good"
             ELSE IF FracGE(growth, Whole(0)) THEN "fair"
             ELSE "poor"
    ELSE "fair"

\* The recommendation built around an explanation, unless building the
\* explanation raised.
Recommended(job, job_match, bls_projection, market_validation, explanation) ==
    IF explanation.kind = "raise" THEN explanation
    ELSE Returned(
        CareerRecommendation(
            job, job_match.match_score, job_match, bls_projection,
            market_validation, explanation.value,
            OverallConfidence(
                job_match.match_score,
                ValidatedConfidence(GrowthConfidence(bls_projection),
                                    market_validation)),
            _generate_actions(job_match, bls_projection),
            _determine_salary_range(bls_projection, market_validation),
            _determine_growth_outlook(bls_projection, market_validation)))

_create_recommendation(job, job_match, bls_projection, market_validation) ==
    Recommended(job, job_match, bls_projection, market_validation,
                _generate_explanation(job, job_match, bls_projection,
                                      market_validation))

(***************************************************************************)
(* CareerRecommendationEngine.get_career_recommendations.  The market data *)
(* source and the oracle are inputs: outlook gives the projection (or      *)
(* None) for an occupation code, replies the oracle's reply for a title.   *)
(* An entry the validator caches during the call is less than a day old    *)
(* for the rest of it.  The result is what the call returns or raises, and *)
(* the validator's cache afterwards.                                       *)
(***************************************************************************)
MinRecommendationScore == Frac(3, 10)

ProjectionFor(job, outlook) ==
    IF job.onet_code # None THEN outlook[job.onet_code] ELSE None

\* The end of one turn of the for loop: the recommendation is appended and
\* the validator's cache is as the validation left it.
Appended(loop, validate_with_perplexity, validated, recommendation, key, reply) ==
    IF loop.raised THEN loop
    ELSE [recommendations |->
              IF recommendation.kind = "raise" THEN loop.recommendations
              ELSE Append(loop.recommendations, recommendation.value),
          cache |->
              IF validate_with_perplexity THEN validated.cache
              ELSE loop.cache,
          fresh |->
              IF /\ validate_with_perplexity
                 /\ ~validated.cached
                 /\ reply.kind \notin OracleFailures
              THEN loop.fresh \cup {key}
              ELSE loop.fresh,
          raised |-> recommendation.kind = "raise"]

\* Steps 3 and 4 of one turn, from the validation.
Step(loop, job_match, bls_projection, validate_with_perplexity, validated, reply) ==
    Appended(loop, validate_with_perplexity, validated,
             _create_recommendation(
                 job_match.job, job_match, bls_projection,
                 IF validate_with_perplexity THEN validated.validation
                 ELSE None),
             cache_key(job_match.job.title), reply)

\* One turn of the for loop, from the projection.
Turn(loop, job_match, bls_projection, validate_with_perplexity, reply) ==
    Step(loop, job_match, bls_projection, validate_with_perplexity,
         validate_job_outlook(loop.cache, job_match.job.title, bls_projection,
                              reply, loop.fresh),
         reply)

\* The for loop over the job matches, after the first n of them.
RECURSIVE Recommend(_, _, _, _, _, _, _)
Recommend(job_matches, n, cache, validate_with_perplexity, outlook, replies, fresh_keys) ==
    IF n = 0
    THEN [recommendations |-> <<>>, cache |-> cache, fresh |-> fresh_keys,
          raised |-> FALSE]
    ELSE Turn(Recommend(job_matches, n - 1, cache, validate_with_perplexity,
                        outlook, replies, fresh_keys),
              job_matches[n], ProjectionFor(job_matches[n].job, outlook),
              validate_with_perplexity, replies[job_matches[n].job.title])

\* recommendations.sort(key=lambda r: (r.confidence, r.match_score),
\*                      reverse=True)
RecommendationBefore(a, b) ==
    \/ FracGT(a.confidence, b.confidence)
    \/ FracEQ(a.confidence, b.confidence) /\ FracGT(a.match_score, b.match_score)

RecommendationTie(a, b) ==
    FracEQ(a.confidence, b.confidence) /\ FracEQ(a.match_score, b.match_score)

\* The list as the loop appended it: no sort.
AsAppended(recommendations) == recommendations

SortRecommendations(recommendations) ==
    LET n == Len(recommendations)
        position(i) ==
            1 + Cardinality({j \in 1..n :
                                RecommendationBefore(recommendations[j],
                                                     recommendations[i])})
              + Cardinality({j \in 1..(i - 1) :
                                RecommendationTie(recommendations[j],
                                                  recommendations[i])})
    IN  [p \in 1..n |-> recommendations[CHOOSE i \in 1..n : position(i) = p]]

\* The sort and the slice, unless the loop raised.
Recommendations(loop, limit) ==
    IF loop.raised
    THEN [result |-> Raised("TypeError"), cache |-> loop.cache]
    ELSE [result |->
              Returned(FirstN(SortRecommendations(loop.recommendations),
                              limit)),
          cache |-> loop.cache]

\* Step 2 onwards, over job_matches[:limit * 2].
Enrich(considered, limit, validate_with_perplexity, outlook, replies, fresh_keys) ==
    Recommendations(Recommend(considered, Len(considered), _cache,
                              validate_with_perplexity, outlook, replies,
                              fresh_keys),
                    limit)

FromJobMatches(job_matches, limit, validate_with_perplexity, outlook, replies, fresh_keys) ==
    IF job_matches.kind = "raise"
    THEN [result |-> job_matches, cache |-> _cache]
    ELSE Enrich(FirstN(job_matches.value, limit * 2), limit,
                validate_with_perplexity, outlook, replies, fresh_keys)

get_career_recommendations(user_profile, limit, validate_with_perplexity, outlook, replies, fresh_keys) ==
    FromJobMatches(
        find_matching_jobs(
            match_user_skills([i \in 1..Len(user_profile.skills) |->
                                  user_profile.skills[i].skill_id]),
            MinRecommendationScore),
        limit, validate_with_perplexity, outlook, replies, fresh_keys)

(***************************************************************************)
(* LearningPathGenerator._optimize_learning_sequence.  The milestones      *)
(* without prerequisites come first; then passes over the remaining ones   *)
(* append each milestone whose prerequisites are all among the skills      *)
(* appended so far; a pass that appends nothing ends the loop and the      *)
(* remaining milestones are appended as they stand (the fallback).         *)
(***************************************************************************)
LearningMilestone(skill_name, target_level, resources, estimated_weeks, prerequisites, validation_method) ==
    [skill_name |-> skill_name, target_level |-> target_level,
     resources |-> resources, estimated_weeks |-> estimated_weeks,
     prerequisites |-> prerequisites, validation_method |-> validation_method]

\* any(prereq in completed_skills for prereq in milestone.prerequisites)
SomePrerequisiteMet(milestone, completed_skills) ==
    \E k \in 1..Len(milestone.prerequisites) :
        milestone.prerequisites[k] \in completed_skills

\* all(prereq in completed_skills for prereq in milestone.prerequisites)
PrerequisitesMet(milestone, completed_skills) ==
    \A k \in 1..Len(milestone.prerequisites) :
        milestone.prerequisites[k] \in completed_skills

\* list.remove(x): the list without its first element equal to x.
ListRemove(list, x) ==
    LET first == Min({k \in 1..Len(list) : list[k] = x})
    IN  SubSeq(list, 1, first - 1) \o SubSeq(list, first + 1, Len(list))

\* The for loop over the copy remaining[:], from its position i on.
RECURSIVE SequencePass(_, _, _)
SequencePass(copy, i, loop) ==
    IF i > Len(copy) THEN loop
    ELSE IF PrerequisitesMet(copy[i], loop.completed_skills)
    THEN SequencePass(copy, i + 1,
             [optimized |-> Append(loop.optimized, copy[i]),
              completed_skills |->
                  loop.completed_skills \cup {copy[i].skill_name},
              remaining |-> ListRemove(loop.remaining, copy[i]),
              added_any |-> TRUE])
    ELSE SequencePass(copy, i + 1, loop)

RECURSIVE SequenceLoopGivingUp(_)
SequenceLoopGivingUp(loop) ==
    IF loop.remaining = <<>>
    THEN [optimized |-> loop.optimized, fallback |-> FALSE]
    ELSE LET pass == SequencePass(loop.remaining, 1,
                                  [loop EXCEPT !.added_any = FALSE])
         IN  IF ~pass.added_any
             THEN [optimized |-> pass.optimized, fallback |-> TRUE]
             ELSE SequenceLoopGivingUp(pass)

\* The while loop.
RECURSIVE SequenceLoop(_)
SequenceLoop(loop) ==
    IF loop.remaining = <<>>
    THEN [optimized |-> loop.optimized, fallback |-> FALSE]
    ELSE LET pass == SequencePass(loop.remaining, 1,
                                  [loop EXCEPT !.added_any = FALSE])
         IN  IF ~pass.added_any
             THEN [optimized |-> pass.optimized \o pass.remaining,
                   fallback |-> TRUE]
             ELSE SequenceLoop(pass)

\* The returned list, and whether the fallback branch was taken.
_optimize_learning_sequence(milestones) ==
    LET free == SelectSeq(milestones, LAMBDA m : m.prerequisites = <<>>)
    IN  SequenceLoop(
            [optimized |-> free,
             completed_skills |-> {m.skill_name : m \in Range(free)},
             remaining |->
                 SelectSeq(milestones, LAMBDA m : m.prerequisites # <<>>),
             added_any |-> FALSE])

(***************************************************************************)
(* SkillGapAnalyzer.analyze_skill_gaps.  The names of the missing skills   *)
(* and the skill ids are strings the code looks inside.  A missing skill   *)
(* takes the first requirement of the job whose id is the name, contains   *)
(* the name, or contains it when both are lowered; without one it takes a  *)
(* requirement of importance 0.8 at the intermediate level.                *)
(***************************************************************************)
replace_blanks(s) == [i \in 1..Len(s) |-> IF s[i] = " " THEN "_" ELSE s[i]]

NamesRequirement(missing_skill, skill) ==
    \/ skill.skill_id = missing_skill
    \/ Contains(missing_skill, skill.skill_id)
    \/ Contains(lower(missing_skill), lower(skill.skill_id))

DefaultRequirement(missing_skill) ==
    SkillRequirement(replace_blanks(lower(missing_skill)), 8, "intermediate")

\* The requirement at the first of the places, or else the default.
RequirementAmong(at, required_skills, missing_skill) ==
    IF at = {} THEN DefaultRequirement(missing_skill)
    ELSE required_skills[Min(at)]

skill_obj(missing_skill, required_skills) ==
    RequirementAmong({i \in 1..Len(required_skills) :
                         NamesRequirement(missing_skill, required_skills[i])},
                     required_skills, missing_skill)

MissingGap(missing_skill, requirement) ==
    SkillGap(requirement.skill_id, missing_skill, "None",
             requirement.required_level, requirement.importance, Whole(1))

RECURSIVE MissingGaps(_, _)
MissingGaps(missing_skills, required_skills) ==
    IF missing_skills = <<>> THEN <<>>
    ELSE <<MissingGap(Head(missing_skills),
                      skill_obj(Head(missing_skills), required_skills))>>
         \o MissingGaps(Tail(missing_skills), required_skills)

\* The gap of a requirement the user holds, if the user's level is lower.
LevelGap(req_skill, user_skill) ==
    IF level_values(user_skill.proficiency_level)
           < level_values(req_skill.required_level)
    THEN <<SkillGap(req_skill.skill_id, req_skill.skill_id,
                    user_skill.proficiency_level, req_skill.required_level,
                    req_skill.importance,
                    LevelGapScore(level_values(user_skill.proficiency_level),
                                  level_values(req_skill.required_level)))>>
    ELSE <<>>

RECURSIVE LevelGaps(_, _)
LevelGaps(required_skills, user_skills) ==
    IF required_skills = <<>> THEN <<>>
    ELSE (IF Head(required_skills).skill_id \in UserSkillIds(user_skills)
          THEN LevelGap(Head(required_skills),
                        UserSkillDictEntry(user_skills,
                                           Head(required_skills).skill_id))
          ELSE <<>>)
         \o LevelGaps(Tail(required_skills), user_skills)

analyze_skill_gaps(user_profile, target_recommendation) ==
    SortGaps(MissingGaps(target_recommendation.skill_match.missing_skills,
                         target_recommendation.job.required_skills)
             \o LevelGaps(target_recommendation.job.required_skills,
                          user_profile.skills))

(***************************************************************************)
(* SkillGapAnalyzer.prioritize_skills.                                     *)
(***************************************************************************)
\* gap.importance > 0.5 or gap.gap_score >= 1.0
IsPriority(gap) ==
    gap.importance > 5 \/ FracGE(gap.gap_score, Whole(1))

RECURSIVE NamesOfGaps(_)
NamesOfGaps(gaps) ==
    IF gaps = <<>> THEN <<>>
    ELSE <<Head(gaps).skill_name>> \o NamesOfGaps(Tail(gaps))

prioritize_skills(gaps) ==
    [priority_skills |-> NamesOfGaps(SelectSeq(gaps, IsPriority)),
     optional_skills |->
         NamesOfGaps(SelectSeq(gaps, LAMBDA gap : ~IsPriority(gap)))]

(***************************************************************************)
(* The resource database of the analyzer: the skill names it has resources *)
(* for and, of each resource, the title, the difficulty, the type and the  *)
(* cost.                                                                   *)
(***************************************************************************)
Python == <<"P", "y", "t", "h", "o", "n">>

MachineLearning == <<"M", "a", "c", "h", "i", "n", "e", " ", "L", "e", "a", "r", "n", "i", "n", "g">>

SQL == <<"S", "Q", "L">>

DataAnalysis == <<"D", "a", "t", "a", " ", "A", "n", "a", "l", "y", "s", "i", "s">>

Communication == <<"C", "o", "m", "m", "u", "n", "i", "c", "a", "t", "i", "o", "n">>

ProjectManagement == <<"P", "r", "o", "j", "e", "c", "t", " ", "M", "a", "n", "a", "g", "e", "m", "e", "n", "t">>

Statistics == <<"S", "t", "a", "t", "i", "s", "t", "i", "c", "s">>

AdvancedSQL == <<"A", "d", "v", "a", "n", "c", "e", "d", " ", "S", "Q", "L">>

PythonResources ==
    <<[title |-> "Python for Everybody Specialization", difficulty |-> "beginner", resource_type |-> "course", cost |-> "freemium"],
      [title |-> "Automate the Boring Stuff with Python", difficulty |-> "beginner", resource_type |-> "book", cost |-> "free"],
      [title |-> "Python Institute Certification (PCAP)", difficulty |-> "intermediate", resource_type |-> "certification", cost |-> "paid"]>>

MachineLearningResources ==
    <<[title |-> "Machine Learning Specialization", difficulty |-> "intermediate", resource_type |-> "course", cost |-> "freemium"],
      [title |-> "Hands-On Machine Learning", difficulty |-> "intermediate", resource_type |-> "book", cost |-> "paid"],
      [title |-> "Kaggle Learn: Machine Learning", difficulty |-> "beginner", resource_type |-> "tutorial", cost |-> "free"]>>

SQLResources ==
    <<[title |-> "SQL for Data Science", difficulty |-> "beginner", resource_type |-> "course", cost |-> "freemium"],
      [title |-> "SQLBolt Interactive Tutorial", difficulty |-> "beginner", resource_type |-> "tutorial", cost |-> "free"],
      [title |-> "HackerRank SQL Practice", difficulty |-> "intermediate", resource_type |-> "practice", cost |-> "free"]>>

DataAnalysisResources ==
    <<[title |-> "Google Data Analytics Certificate", difficulty |-> "beginner", resource_type |-> "certification", cost |-> "freemium"],
      [title |-> "Python for Data Analysis", difficulty |-> "intermediate", resource_type |-> "book", cost |-> "free"]>>

CommunicationResources ==
    <<[title |-> "Presentation Skills: Speechwriting, Slides and Delivery", difficulty |-> "beginner", resource_type |-> "course", cost |-> "freemium"],
      [title |-> "Technical Writing Fundamentals", difficulty |-> "intermediate", resource_type |-> "course", cost |-> "free"]>>

ProjectManagementResources ==
    <<[title |-> "Google Project Management Certificate", difficulty |-> "beginner", resource_type |-> "certification", cost |-> "freemium"],
      [title |-> "PMP Certification Training", difficulty |-> "advanced", resource_type |-> "certification", cost |-> "paid"]>>

ResourceNames ==
    {Python, MachineLearning, SQL, DataAnalysis, Communication, ProjectManagement}

\* self.analyzer.resource_db.get(skill_name, [])
resource_db(skill_name) ==
    CASE skill_name = Python -> PythonResources
      [] skill_name = MachineLearning -> MachineLearningResources
      [] skill_name = SQL -> SQLResources
      [] skill_name = DataAnalysis -> DataAnalysisResources
      [] skill_name = Communication -> CommunicationResources
      [] skill_name = ProjectManagement -> ProjectManagementResources
      [] OTHER -> <<>>

\* validation_methods.get(skill_name, ...)
_get_validation_method(skill_name) ==
    CASE skill_name = Python -> "Complete coding project and pass Python certification"
      [] skill_name = MachineLearning -> "Build ML model and deploy to production"
      [] skill_name = SQL -> "Complete database project with complex queries"
      [] skill_name = DataAnalysis -> "Complete end-to-end data analysis project"
      [] skill_name = Communication -> "Give presentation and receive feedback"
      [] skill_name = ProjectManagement -> "Lead a project from start to finish"
      [] OTHER -> "Complete practical project demonstrating skill"

(***************************************************************************)
(* LearningPathGenerator._create_milestone_for_skill.                      *)
(***************************************************************************)
GenericResource(skill_name) ==
    [title |-> [learn |-> skill_name], difficulty |-> "intermediate",
     resource_type |-> "course", cost |-> "freemium"]

_filter_resources_by_level(resources, current_level, target_level) ==
    IF current_level = "None"
    THEN SelectSeq(resources,
                   LAMBDA r : r.difficulty \in {"beginner", "intermediate"})
    ELSE IF current_level \in {"beginner", "intermediate"}
    THEN SelectSeq(resources,
                   LAMBDA r : r.difficulty \in {"intermediate", "advanced"})
    ELSE SelectSeq(resources,
                   LAMBDA r : \/ r.difficulty = "advanced"
                              \/ r.resource_type = "certification")

\* base_weeks = 4, and 4 or 2 more for a missing skill or a large gap
EstimatedWeeks(gap) ==
    IF FracGE(gap.gap_score, Whole(1)) THEN 8
    ELSE IF FracGE(gap.gap_score, Frac(1, 2)) THEN 6
    ELSE 4

MilestonePrerequisites(gap) ==
    IF gap.current_level # "None" THEN <<>>
    ELSE IF gap.skill_name \in {MachineLearning, DataAnalysis}
    THEN <<Python, Statistics>>
    ELSE IF gap.skill_name = AdvancedSQL THEN <<SQL>>
    ELSE <<>>

_create_milestone_for_skill(gap) ==
    IF resource_db(gap.skill_name) = <<>>
    THEN LearningMilestone(gap.skill_name, gap.required_level,
                           <<GenericResource(gap.skill_name)>>, 6, <<>>,
                           "Complete online course and practice project")
    ELSE LearningMilestone(
             gap.skill_name, gap.required_level,
             FirstN(_filter_resources_by_level(resource_db(gap.skill_name),
                                               gap.current_level,
                                               gap.required_level), 3),
             EstimatedWeeks(gap), MilestonePrerequisites(gap),
             _get_validation_method(gap.skill_name))

(***************************************************************************)
(* _estimate_total_cost and _assess_difficulty_level.                      *)
(***************************************************************************)
RECURSIVE ResourcesOf(_)
ResourcesOf(milestones) ==
    IF milestones = <<>> THEN <<>>
    ELSE Head(milestones).resources \o ResourcesOf(Tail(milestones))

PaidResources(resources) ==
    Len(SelectSeq(resources, LAMBDA r : r.cost = "paid"))

_estimate_total_cost(milestones) ==
    IF PaidResources(ResourcesOf(milestones)) = 0 THEN "Free to $100"
    ELSE IF PaidResources(ResourcesOf(milestones)) <= 2 THEN "$100 to $500"
    ELSE "$500 to $1500"

difficulty_scores(difficulty) ==
    CASE difficulty = "beginner" -> 1
      [] difficulty = "intermediate" -> 2
      [] difficulty = "advanced" -> 3
      [] OTHER -> 2

RECURSIVE TotalDifficulty(_)
TotalDifficulty(resources) ==
    IF resources = <<>> THEN 0
    ELSE difficulty_scores(Head(resources).difficulty)
         + TotalDifficulty(Tail(resources))

\* avg_difficulty <= 1.5, <= 2.5, or more
DifficultyOf(total_score, total_resources) ==
    IF total_resources = 0 THEN "intermediate"
    ELSE IF 2 * total_score <= 3 * total_resources THEN "beginner"
    ELSE IF 2 * total_score <= 5 * total_resources THEN "intermediate"
    ELSE "advanced"

_assess_difficulty_level(milestones) ==
    DifficultyOf(TotalDifficulty(ResourcesOf(milestones)),
                 Len(ResourcesOf(milestones)))

(***************************************************************************)
(* LearningPathGenerator.generate_learning_path.                           *)
(***************************************************************************)
LearningPath(target_job_title, total_estimated_weeks, milestones, priority_skills, optional_skills, estimated_cost, difficulty_level) ==
    [target_job_title |-> target_job_title,
     total_estimated_weeks |-> total_estimated_weeks,
     milestones |-> milestones, priority_skills |-> priority_skills,
     optional_skills |-> optional_skills, estimated_cost |-> estimated_cost,
     difficulty_level |-> difficulty_level]

RECURSIVE MilestonesOf(_)
MilestonesOf(gaps) ==
    IF gaps = <<>> THEN <<>>
    ELSE <<_create_milestone_for_skill(Head(gaps))>>
         \o MilestonesOf(Tail(gaps))

RECURSIVE TotalWeeks(_)
TotalWeeks(milestones) ==
    IF milestones = <<>> THEN 0
    ELSE Head(milestones).estimated_weeks + TotalWeeks(Tail(milestones))

\* Steps 4 and 5, from the milestones in their optimized order.
PathOf(target_job_title, total_weeks, optimized_milestones, buckets) ==
    LearningPath(target_job_title, total_weeks, optimized_milestones,
                 buckets.priority_skills, buckets.optional_skills,
                 _estimate_total_cost(optimized_milestones),
                 _assess_difficulty_level(optimized_milestones))

\* Steps 3 to 5, from the milestones of the gaps.
PathFromMilestones(target_job_title, milestones, buckets) ==
    PathOf(target_job_title, TotalWeeks(milestones),
           _optimize_learning_sequence(milestones).optimized, buckets)

\* Steps 2 to 5, from the gaps.
PathFromGaps(target_job_title, gaps) ==
    PathFromMilestones(target_job_title, MilestonesOf(gaps),
                       prioritize_skills(gaps))

generate_learning_path(user_profile, target_recommendation) ==
    PathFromGaps(target_recommendation.job.title,
                 analyze_skill_gaps(user_profile, target_recommendation))

(***************************************************************************)
(* LearningPathGenerator.get_next_milestone: the first milestone of the    *)
(* path that is not completed and whose prerequisites are all completed,   *)
(* or None.                                                                *)
(***************************************************************************)
\* As IsNext, without the test of the prerequisites.
IsNextWhateverItNeeds(milestone, completed_set) ==
    milestone.skill_name \notin completed_set

IsNext(milestone, completed_set) ==
    /\ milestone.skill_name \notin completed_set
    /\ \A k \in 1..Len(milestone.prerequisites) :
           milestone.prerequisites[k] \in completed_set

\* As FirstNext, with the last of the milestones that can be taken.
FirstNext(milestones, candidates) ==
    IF candidates = {} THEN None ELSE milestones[Min(candidates)]

get_next_milestone(learning_path, completed_skills) ==
    FirstNext(learning_path.milestones,
              {i \in 1..Len(learning_path.milestones) :
                  IsNext(learning_path.milestones[i], Range(completed_skills))})

(***************************************************************************)
(* SkillOntology.export_to_json.  The document is kept as the JSON values  *)
(* json.dumps writes: an object is the list of its members in the order of *)
(* the dict, a str a string, a float a number, None null, an enum member   *)
(* its value.  Of the fields the method writes, those the records of this  *)
(* model keep are written.                                                 *)
(***************************************************************************)
JString(s) == [json |-> "string", value |-> s]

JNumber(x) == [json |-> "number", value |-> x]

JBool(b) == [json |-> "bool", value |-> b]

JNull == [json |-> "null"]

JArray(items) == [json |-> "array", items |-> items]

JObject(members) == [json |-> "object", members |-> members]

JOptional(s) == IF s = None THEN JNull ELSE JString(s)

\* A list with the members of a set of ids, each once.
ListOf(S) ==
    CHOOSE list \in [1..Cardinality(S) -> S] :
        \A i, j \in 1..Cardinality(S) : i # j => list[i] # list[j]

\* As ExportedRequirement, without the mandatory flag.
ExportedRequirementUnflagged(req) ==
    JObject(<<<<"skill_id", JString(req.skill_id)>>,
              <<"importance", JNumber(req.importance)>>,
              <<"required_level", JString(req.required_level)>>>>)

ExportedRequirement(req) ==
    JObject(<<<<"skill_id", JString(req.skill_id)>>,
              <<"importance", JNumber(req.importance)>>,
              <<"required_level", JString(req.required_level)>>,
              <<"is_mandatory", JBool(req.is_mandatory)>>>>)

ExportedSkill(skill) ==
    JObject(<<<<"id", JString(skill.id)>>,
              <<"name", JString(skill.name)>>,
              <<"description", JString(skill.description)>>,
              <<"synonyms",
                JArray([i \in 1..Len(skill.synonyms) |->
                           JString(skill.synonyms[i])])>>,
              <<"related_skills",
                JArray([i \in 1..Cardinality(skill.related_skills) |->
                           JString(ListOf(skill.related_skills)[i])])>>>>)

ExportedJob(job) ==
    JObject(<<<<"id", JString(job.id)>>,
              <<"title", JString(job.title)>>,
              <<"onet_code", JOptional(job.onet_code)>>,
              <<"required_skills",
                JArray([i \in 1..Len(job.required_skills) |->
                           ExportedRequirement(job.required_skills[i])])>>>>)

export_to_json ==
    JObject(<<<<"skills",
                JObject([i \in 1..Len(skills) |->
                            <<skills[i].id, ExportedSkill(skills[i])>>])>>,
              <<"jobs",
                JObject([i \in 1..Len(jobs) |->
                            <<jobs[i].id, ExportedJob(jobs[i])>>])>>>>)

(***************************************************************************)
(* The reading of an exported document: the member of each name is parsed  *)
(* back to the field of that name and the records are added with add_skill *)
(* and add_job, in the order of the document.  A requirement without a     *)
(* mandatory flag takes the default of SkillRequirement, True.             *)
(***************************************************************************)
HasMember(object, name) ==
    \E i \in 1..Len(object.members) : object.members[i][1] = name

Member(object, name) ==
    object.members[CHOOSE i \in 1..Len(object.members) :
                       object.members[i][1] = name][2]

Parsed(value) == IF value.json = "null" THEN None ELSE value.value

ParsedList(array) == [i \in 1..Len(array.items) |-> Parsed(array.items[i])]

ImportedRequirement(object) ==
    [skill_id |-> Parsed(Member(object, "skill_id")),
     importance |-> Parsed(Member(object, "importance")),
     required_level |-> Parsed(Member(object, "required_level")),
     is_mandatory |->
         IF HasMember(object, "is_mandatory")
         THEN Parsed(Member(object, "is_mandatory"))
         ELSE TRUE]

ImportedSkill(object) ==
    Skill(Parsed(Member(object, "id")), Parsed(Member(object, "name")),
          Parsed(Member(object, "description")),
          ParsedList(Member(object, "synonyms")),
          Range(ParsedList(Member(object, "related_skills"))))

ImportedJob(object) ==
    Job(Parsed(Member(object, "id")), Parsed(Member(object, "title")),
        Parsed(Member(object, "onet_code")),
        [i \in 1..Len(Member(object, "required_skills").items) |->
            ImportedRequirement(Member(object, "required_skills").items[i])])

\* The dict after the first n entries were added.
RECURSIVE AddedInOrder(_, _)
AddedInOrder(records, n) ==
    IF n = 0 THEN <<>>
    ELSE DictSet(AddedInOrder(records, n - 1), records[n])

import_from_json(document) ==
    LET skill_entries == Member(document, "skills").members
        job_entries == Member(document, "jobs").members
        read_skills == [i \in 1..Len(skill_entries) |->
                           ImportedSkill(skill_entries[i][2])]
        read_jobs == [i \in 1..Len(job_entries) |->
                         ImportedJob(job_entries[i][2])]
    IN  [skills |-> AddedInOrder(read_skills, Len(read_skills)),
         jobs |-> AddedInOrder(read_jobs, Len(read_jobs))]

(***************************************************************************)
(* The calls, each recording what it was given and what it returned.       *)
(***************************************************************************)
Call_export_to_json ==
    /\ Idle
    /\ ret' = [op |-> "export_to_json", result |-> Returned(export_to_json)]
    /\ UNCHANGED <<ontology, services>>

\* As Call_calculate_skill_similarity, reading the relationship sets the way
\* dict.setdefault does: an id without a set is given the empty one.
Call_calculate_skill_similarity_setdefault(skill1_id, skill2_id) ==
    /\ Idle
    /\ ret' = [op |-> "calculate_skill_similarity",
               skill1_id |-> skill1_id, skill2_id |-> skill2_id,
               result |-> Returned(calculate_skill_similarity(skill1_id, skill2_id))]
    /\ skill_relationships' =
           [id \in DOMAIN skill_relationships \cup {skill1_id, skill2_id} |->
               MapGet(skill_relationships, id, {})]
    /\ UNCHANGED <<skills, jobs, job_skill_matrix, services>>

Call_calculate_skill_similarity(skill1_id, skill2_id) ==
    /\ Idle
    /\ ret' = [op |-> "calculate_skill_similarity",
               skill1_id |-> skill1_id, skill2_id |-> skill2_id,
               result |-> Returned(calculate_skill_similarity(skill1_id, skill2_id))]
    /\ UNCHANGED <<ontology, services>>

Call_calculate_job_match_score(user_skills, job_id) ==
    /\ Idle
    /\ ret' = [op |-> "calculate_job_match_score",
               user_skills |-> user_skills, job_id |-> job_id,
               result |-> Returned(calculate_job_match_score(user_skills, job_id))]
    /\ UNCHANGED <<ontology, services>>

Call_identify_skill_gaps(user_skills, job_id) ==
    /\ Idle
    /\ ret' = [op |-> "identify_skill_gaps",
               user_skills |-> user_skills, job_id |-> job_id,
               result |-> Returned(identify_skill_gaps(user_skills, job_id))]
    /\ UNCHANGED <<ontology, services>>

Call_find_matching_jobs(skill_matches, min_match_score) ==
    /\ Idle
    /\ ret' = [op |-> "find_matching_jobs",
               skill_matches |-> skill_matches,
               min_match_score |-> min_match_score,
               result |-> find_matching_jobs(skill_matches, min_match_score)]
    /\ UNCHANGED <<ontology, services>>

Call_find_skill_by_name(name) ==
    /\ Idle
    /\ ret' = [op |-> "find_skill_by_name", name |-> name,
               result |-> Returned(find_skill_by_name(name))]
    /\ UNCHANGED <<ontology, services>>

Call_match_user_skills(user_descriptions) ==
    /\ Idle
    /\ ret' = [op |-> "match_user_skills",
               user_descriptions |-> user_descriptions,
               result |-> Returned(match_user_skills(user_descriptions))]
    /\ UNCHANGED <<ontology, services>>

Call_optimize_learning_sequence(milestones) ==
    /\ Idle
    /\ ret' = [op |-> "_optimize_learning_sequence",
               milestones |-> milestones,
               result |->
                   Returned(_optimize_learning_sequence(milestones).optimized),
               fallback |-> _optimize_learning_sequence(milestones).fallback]
    /\ UNCHANGED <<ontology, services>>

Call_get_next_milestone(learning_path, completed_skills) ==
    /\ Idle
    /\ ret' = [op |-> "get_next_milestone",
               learning_path |-> learning_path,
               completed_skills |-> completed_skills,
               result |-> Returned(get_next_milestone(learning_path,
                                                      completed_skills))]
    /\ UNCHANGED <<ontology, services>>

\* A learner takes the path that generate_learning_path returned and asks
\* for the next milestone, with nothing completed.
StartLearning ==
    /\ ret.op = "generate_learning_path"
    /\ ret' = [op |-> "get_next_milestone",
               learning_path |-> ret.result.value,
               completed_skills |-> <<>>,
               result |-> Returned(get_next_milestone(ret.result.value, <<>>))]
    /\ UNCHANGED <<ontology, services>>

\* The learner completes the milestone that was returned and asks again.
CompleteAndAskAgain ==
    /\ ret.op = "get_next_milestone"
    /\ ret.result.value # None
    /\ ret' = [ret EXCEPT
                 !.completed_skills = Append(@, ret.result.value.skill_name),
                 !.result =
                     Returned(get_next_milestone(
                                  ret.learning_path,
                                  Append(ret.completed_skills,
                                         ret.result.value.skill_name)))]
    /\ UNCHANGED <<ontology, services>>

Call_analyze_skill_gaps(user_profile, target_recommendation) ==
    /\ Idle
    /\ ret' = [op |-> "analyze_skill_gaps",
               user_profile |-> user_profile,
               target_recommendation |-> target_recommendation,
               result |-> Returned(analyze_skill_gaps(user_profile,
                                                      target_recommendation))]
    /\ UNCHANGED <<ontology, services>>

Call_prioritize_skills(gaps) ==
    /\ Idle
    /\ ret' = [op |-> "prioritize_skills",
               gaps |-> gaps,
               result |-> Returned(prioritize_skills(gaps))]
    /\ UNCHANGED <<ontology, services>>

Call_generate_learning_path(user_profile, target_recommendation) ==
    /\ Idle
    /\ ret' = [op |-> "generate_learning_path",
               user_profile |-> user_profile,
               target_recommendation |-> target_recommendation,
               result |-> Returned(generate_learning_path(
                                       user_profile, target_recommendation))]
    /\ UNCHANGED <<ontology, services>>

Return_validate_job_outlook(occupation_title, bls_projection, reply, validated) ==
    /\ ret' = [op |-> "validate_job_outlook",
               occupation_title |-> occupation_title,
               bls_projection |-> bls_projection,
               reply |-> reply,
               cached |-> validated.cached,
               result |-> Returned(validated.validation)]
    /\ _cache' = validated.cache

Call_validate_job_outlook(occupation_title, bls_projection, reply, fresh_keys) ==
    /\ Idle
    /\ Return_validate_job_outlook(
           occupation_title, bls_projection, reply,
           validate_job_outlook(_cache, occupation_title, bls_projection,
                                reply, fresh_keys))
    /\ UNCHANGED <<ontology, synonym_index>>

Call_determine_growth_outlook(bls_projection, market_validation) ==
    /\ Idle
    /\ ret' = [op |-> "_determine_growth_outlook",
               bls_projection |-> bls_projection,
               market_validation |-> market_validation,
               result |-> Returned(_determine_growth_outlook(
                                       bls_projection, market_validation))]
    /\ UNCHANGED <<ontology, services>>

Call_create_recommendation(job, job_match, bls_projection, market_validation) ==
    /\ Idle
    /\ ret' = [op |-> "_create_recommendation",
               job |-> job,
               job_match |-> job_match,
               bls_projection |-> bls_projection,
               market_validation |-> market_validation,
               result |-> _create_recommendation(job, job_match,
                                                 bls_projection,
                                                 market_validation)]
    /\ UNCHANGED <<ontology, services>>

\* The caller holds the result, and the validator its cache.
Return_get_career_recommendations(user_profile, limit, validate_with_perplexity, outlook, replies, fresh_keys, call) ==
    /\ ret' = [op |-> "get_career_recommendations",
               user_profile |-> user_profile,
               limit |-> limit,
               validate_with_perplexity |-> validate_with_perplexity,
               outlook |-> outlook,
               replies |-> replies,
               fresh_keys |-> fresh_keys,
               cache_before |-> _cache,
               result |-> call.result]
    /\ _cache' = call.cache

Call_get_career_recommendations(user_profile, limit, validate_with_perplexity, outlook, replies, fresh_keys) ==
    /\ Idle
    /\ Return_get_career_recommendations(
           user_profile, limit, validate_with_perplexity, outlook, replies,
           fresh_keys,
           get_career_recommendations(user_profile, limit,
                                      validate_with_perplexity, outlook,
                                      replies, fresh_keys))
    /\ UNCHANGED <<ontology, synonym_index>>

(***************************************************************************)
(* The job-matching specification: a catalog of two skills (python, sql)   *)
(* whose related lists may name each other and a third skill that is never *)
(* added, one job whose requirement list is drawn freely and one fixed     *)
(* job; a requirement on a skill not added yet is a dangling reference.    *)
(***************************************************************************)
MatchSkillIds == {"python", "sql"}

RelatedIds == {"python", "sql", "stats"}

NameOf(id) ==
    CASE id = "python" -> "Python"
      [] id = "sql" -> "SQL"
      [] id = "stats" -> "Statistics"

MatchSkillPool ==
    UNION {{Skill(id, NameOf(id), "", <<>>, rs) :
               rs \in SUBSET (RelatedIds \ {id})} : id \in MatchSkillIds}

MatchReqPool ==
    {SkillRequirement("python", 9, "advanced"),
     SkillRequirement("python", 0, "advanced"),
     SkillRequirement("sql", 7, "intermediate"),
     SkillRequirement("sql", 0, "intermediate")}

MatchJobPool ==
    {Job("data_scientist", "Data Scientist", None, rs) :
        rs \in SeqsUpTo(MatchReqPool, MaxReqs)}
    \cup {Job("analyst", "Analyst", None,
                 <<SkillRequirement("sql", 7, "intermediate")>>)}

\* The SkillMatch that match_user_skills builds for an exact match.
MatchOf(skill) == SkillMatch(skill.name, skill, Whole(1), "exact", Whole(1))

\* The lists of skill matches the matcher can hand over: matches of skills
\* of the ontology, one per skill.
SkillMatchLists ==
    {ms \in SeqsUpTo({MatchOf(sk) : sk \in Range(skills)}, Len(skills)) :
        \A i, j \in 1..Len(ms) : i # j => ms[i] # ms[j]}

MatchUserLists == {<<>>, <<UserSkill("python", "beginner")>>}

MinScores == {Frac(5, 10), Frac(6, 10)}

InitOntology ==
    /\ skills = <<>>
    /\ jobs = <<>>
    /\ skill_relationships = EmptyMap
    /\ job_skill_matrix = EmptyMap
    /\ synonym_index = EmptyMap
    /\ _cache = EmptyMap
    /\ ret = NoCall

NextMatch ==
    \/ \E s \in MatchSkillPool : add_skill(s)
    \/ \E j \in MatchJobPool : add_job(j)
    \/ \E a \in RelatedIds, b \in RelatedIds : Call_calculate_skill_similarity(a, b)
    \/ \E ms \in SkillMatchLists, m \in MinScores : Call_find_matching_jobs(ms, m)
    \/ \E us \in MatchUserLists : Call_identify_skill_gaps(us, "data_scientist")
    \/ TakeResult

SpecMatch == InitOntology /\ [][NextMatch]_vars

(***************************************************************************)
(* The scoring specification: jobs whose requirements differ in level and  *)
(* importance, and users' skill lists at every level.  A user's list holds *)
(* one entry per skill id (the profile builder skips an id it has seen:    *)
(* user_profile.py, lines 102-105).                                        *)
(***************************************************************************)
ScoreSkillPool == {Skill(id, NameOf(id), "", <<>>, {}) : id \in MatchSkillIds}

ScoreReqPool ==
    {SkillRequirement(id, 8, "expert") : id \in MatchSkillIds}
    \cup {SkillRequirement(id, 4, "intermediate") : id \in MatchSkillIds}
    \cup {SkillRequirement(id, 0, "advanced") : id \in MatchSkillIds}

ScoreJobPool ==
    {Job("data_scientist", "Data Scientist", None, rs) :
        rs \in SeqsUpTo(ScoreReqPool, MaxReqs)}

ScoreJobIds == {"data_scientist", "astronaut"}

UserSkillPool ==
    {UserSkill(id, l) : id \in MatchSkillIds, l \in ProficiencyLevel}

UserSkillLists ==
    {us \in SeqsUpTo(UserSkillPool, Cardinality(MatchSkillIds)) :
        \A i, j \in 1..Len(us) : i # j => us[i].skill_id # us[j].skill_id}

NextScore ==
    \/ \E s \in ScoreSkillPool : add_skill(s)
    \/ \E j \in ScoreJobPool : add_job(j)
    \/ \E us \in UserSkillLists, j \in ScoreJobIds :
           Call_calculate_job_match_score(us, j)
    \/ \E us \in UserSkillLists, j \in ScoreJobIds :
           Call_identify_skill_gaps(us, j)
    \/ \E ms \in SkillMatchLists, m \in MinScores :
           Call_find_matching_jobs(ms, m)
    \/ TakeResult

SpecScore == InitOntology /\ [][NextScore]_vars

(***************************************************************************)
(* The cascade specification: three skills with names, descriptions and    *)
(* synonyms (DB may list "Sql", the name of another skill, as a synonym),  *)
(* a matcher that can be constructed anew at any time, and descriptions    *)
(* that reach each stage of the cascade: a name in another case, a name    *)
(* with blanks around it, a synonym, a misspelling, a word of a            *)
(* description, a string nothing matches and the empty string.             *)
(***************************************************************************)
MaxDescriptions == 2  \* descriptions per call of match_user_skills

CascadeSkillPool ==
    {Skill("python", <<"P", "y", "t", "h", "o", "n">>,
           <<"c", "o", "d", "e">>, syn, {}) :
        syn \in {<<>>, <<<<"p", "y">>>>}}
    \cup {Skill("sql", <<"S", "Q", "L">>,
                <<"d", "a", "t", "a", " ", "q", "u", "e", "r", "y">>, <<>>, {})}
    \cup {Skill("db", <<"D", "B">>, <<>>, syn, {}) :
             syn \in {<<>>, <<<<"S", "q", "l">>>>}}

DescriptionPool ==
    {<<"s", "q", "l">>,
     <<" ", "P", "y", "t", "h", "o", "n", " ">>,
     <<"p", "y">>,
     <<"p", "y", "t", "h", "n">>,
     <<"d", "a", "t", "a">>,
     <<"z", "z", "z">>,
     <<>>}

NextCascade ==
    \/ \E s \in CascadeSkillPool : add_skill(s)
    \/ SkillMatcher_init
    \/ \E ds \in SeqsUpTo(DescriptionPool, MaxDescriptions) :
           Call_match_user_skills(ds)
    \/ \E d \in DescriptionPool : Call_find_skill_by_name(d)
    \/ TakeResult

SpecCascade == InitOntology /\ [][NextCascade]_vars

(***************************************************************************)
(* The sequencing specification: lists of milestones for three skills,     *)
(* each with no prerequisite, one prerequisite (another of the three,      *)
(* itself, or a skill outside the path) or two.                            *)
(***************************************************************************)
MaxMilestones == 3    \* milestones per list

MilestoneNames == {"Python", "Statistics", "Machine Learning"}

PrerequisitePool ==
    {<<>>, <<"Python", "Statistics">>}
    \cup {<<n>> : n \in MilestoneNames \cup {"Linux"}}

MilestonePool ==
    {LearningMilestone(n, "intermediate", <<>>, 6, ps, "test") :
        n \in MilestoneNames, ps \in PrerequisitePool}

\* A path as the test of get_next_milestone builds it, around its milestones.
TestPath(milestones) ==
    LearningPath("Test Job", 20, milestones, <<"Python">>, <<>>,
                 "$100 to $500", "intermediate")

\* The lists of completed skills: every set of names, once.
CompletedLists ==
    {ListOf(S) : S \in SUBSET (MilestoneNames \cup {"Linux"})}

\* The milestones of the paths a learner is asked about: free, waiting for
\* one or two others, waiting for a skill outside the path, or for itself.
StepPool ==
    {m \in MilestonePool :
        <<m.skill_name, m.prerequisites>> \in
            {<<"Python", <<>>>>, <<"Python", <<"Python">>>>,
             <<"Statistics", <<"Python">>>>,
             <<"Machine Learning", <<"Python", "Statistics">>>>,
             <<"Machine Learning", <<"Linux">>>>}}

NextPath ==
    \/ \E ms \in SeqsUpTo(MilestonePool, MaxMilestones) :
           Call_optimize_learning_sequence(ms)
    \/ \E ms \in SeqsUpTo(StepPool, MaxMilestones),
          completed \in CompletedLists :
           Call_get_next_milestone(TestPath(ms), completed)
    \/ TakeResult

SpecPath == InitOntology /\ [][NextPath]_vars

(***************************************************************************)
(* The catalog of the recommender specifications.  Ids, names and titles   *)
(* are strings the code looks into (a profile's skill ids go through the   *)
(* matcher, a title makes the cache key).                                  *)
(***************************************************************************)
python == <<"p", "y", "t", "h", "o", "n">>

sql == <<"s", "q", "l">>

PythonSkill ==
    Skill(python, <<"P", "y", "t", "h", "o", "n">>, <<"c", "o", "d", "e">>,
          <<<<"p", "y">>>>, {})

SqlSkill ==
    Skill(sql, <<"S", "Q", "L">>,
          <<"d", "a", "t", "a", " ", "q", "u", "e", "r", "y">>, <<>>, {})

DataScientistCode == <<"1", "5", "-", "2", "0", "5", "1">>

DataScientist ==
    Job(<<"d", "a", "t", "a", "_", "s", "c", "i", "e", "n", "t", "i", "s", "t">>,
        <<"D", "a", "t", "a", " ", "S", "c", "i", "e", "n", "t", "i", "s", "t">>,
        DataScientistCode,
        <<SkillRequirement(python, 8, "advanced"),
          SkillRequirement(sql, 4, "intermediate")>>)

Analyst ==
    Job(<<"a", "n", "a", "l", "y", "s", "t">>, <<"A", "n", "a", "l", "y", "s", "t">>, None,
        <<SkillRequirement(sql, 6, "intermediate")>>)

GrowthPool ==
    {None, Whole(0), Whole(5), Whole(20), Frac(203, 10), Frac(-61, 10),
     Whole(-40), Whole(-60)}

Projection(change_percent, median_annual_wage, typical_education) ==
    JobProjection(DataScientistCode,
                  <<"D", "a", "t", "a", " ", "S", "c", "i", "e", "n", "t", "i", "s", "t", "s">>,
                  change_percent, median_annual_wage, typical_education)

BachelorsDegree ==
    <<"B", "a", "c", "h", "e", "l", "o", "r", "'", "s", " ", "d", "e", "g", "r", "e", "e">>

(***************************************************************************)
(* The gap specification: the analyzer and the path generator on jobs      *)
(* whose requirements include an id that contains another (nosql, sql), an *)
(* id whose skill has a name of two words, an importance of exactly 0.5    *)
(* and a skill required twice; on recommendations that name none, one or   *)
(* more missing skills; and on profiles that hold required skills below    *)
(* and at the required level.                                              *)
(***************************************************************************)
MaxMissing == 2       \* missing skills per recommendation

UserProfile(skills_) == [skills |-> skills_]

machine_learning == <<"m", "a", "c", "h", "i", "n", "e", "_", "l", "e", "a", "r", "n", "i", "n", "g">>

nosql == <<"n", "o", "s", "q", "l">>

GapReqPool ==
    {SkillRequirement(python, 9, "advanced"),
     SkillRequirement(python, 3, "expert"),
     SkillRequirement(machine_learning, 9, "advanced"),
     SkillRequirement(nosql, 3, "beginner"),
     SkillRequirement(sql, 5, "advanced")}

GapJobPool ==
    {Job(DataScientist.id, DataScientist.title, None, rs) :
        rs \in SeqsUpTo(GapReqPool, MaxReqs)}

MissingPool == SeqsUpTo({MachineLearning, SQL, Communication}, MaxMissing)

\* A recommendation as the tests build it: the job and the names of the
\* missing skills, and nothing from the market.
GapRecommendation(job, missing_skills) ==
    CareerRecommendation(
        job, Frac(6, 10),
        [job |-> job, match_score |-> Frac(6, 10), matched_skills |-> <<>>,
         missing_skills |-> missing_skills, transferable_skills |-> <<>>],
        None, None, <<>>, Frac(7, 10), <<>>, None, "good")

GapProfiles ==
    {UserProfile(<<>>),
     UserProfile(<<UserSkill(python, "beginner")>>),
     UserProfile(<<UserSkill(python, "expert")>>),
     UserProfile(<<UserSkill(sql, "intermediate")>>),
     UserProfile(<<UserSkill(python, "beginner"), UserSkill(sql, "beginner")>>),
     UserProfile(<<UserSkill(machine_learning, "beginner"),
                   UserSkill(python, "advanced")>>)}

\* Gaps as the tests of prioritize_skills build them.
GapPool ==
    {SkillGap(id, name, "None", "advanced", importance, gap_score) :
        id \in {python}, name \in {Python, SQL},
        importance \in {4, 5, 6},
        gap_score \in {Frac(1, 3), Frac(1, 2), Whole(1)}}

NextGaps ==
    \/ \E profile \in GapProfiles, job \in GapJobPool, missing \in MissingPool :
           Call_analyze_skill_gaps(profile, GapRecommendation(job, missing))
    \/ \E gaps \in SeqsUpTo(GapPool, 2) : Call_prioritize_skills(gaps)
    \/ \E profile \in GapProfiles, job \in GapJobPool, missing \in MissingPool :
           Call_generate_learning_path(profile,
                                       GapRecommendation(job, missing))
    \/ TakeResult

SpecGaps == InitOntology /\ [][NextGaps]_vars

(***************************************************************************)
(* The scoring specification of the recommender: _create_recommendation on *)
(* job matches of every score, with few and many missing skills, on        *)
(* projections with and without a growth figure, a wage and an education,  *)
(* and on validations on either side of each threshold.                    *)
(***************************************************************************)
RecJobMatchPool ==
    {[job |-> DataScientist, match_score |-> score,
      matched_skills |-> <<MatchOf(PythonSkill)>>,
      missing_skills |-> missing, transferable_skills |-> transferable] :
        score \in {Whole(0), Frac(3, 10), Frac(2, 3), Whole(1)},
        missing \in {<<>>, <<SqlSkill.name>>,
                     <<SqlSkill.name, <<"S", "t", "a", "t", "s">>,
                       <<"E", "x", "c", "e", "l">>, <<"R">>>>},
        transferable \in {<<>>, <<SqlSkill.name>>}}

RecProjectionPool ==
    {None}
    \cup {Projection(g, wage, education) :
             g \in GrowthPool, wage \in {0, 131490},
             education \in {None, BachelorsDegree}}

RecValidationPool ==
    {None}
    \cup {MarketValidation(Query(DataScientist.title, None), <<>>, <<>>,
                           confidence, is_current) :
             confidence \in {Frac(1, 10), JustUnder(Frac(4, 10)), Frac(4, 10),
                             Frac(7, 10), Frac(8, 10)},
             is_current \in BOOLEAN}

\* Growth figures at and next to the thresholds of the growth outlook.
OutlookGrowthPool ==
    GrowthPool \cup {Frac(-1, 10), Frac(69, 10), Whole(7), Frac(149, 10),
                     Whole(15)}

OutlookProjectionPool ==
    {None} \cup {Projection(g, 0, None) : g \in OutlookGrowthPool}

NextRec ==
    \/ \E jm \in RecJobMatchPool, p \in RecProjectionPool,
          v \in RecValidationPool :
           Call_create_recommendation(jm.job, jm, p, v)
    \/ \E p \in OutlookProjectionPool, v \in RecValidationPool :
           Call_determine_growth_outlook(p, v)
    \/ TakeResult

SpecRec == InitOntology /\ [][NextRec]_vars

(***************************************************************************)
(* The pipeline specification: an engine built on a populated catalog (in  *)
(* one of them SQL was never added, so both jobs have a dangling           *)
(* requirement), a validator whose cache starts empty, and calls of        *)
(* validate_job_outlook and get_career_recommendations with every reply of *)
(* the oracle: three failures, a reply citing current government sources   *)
(* and a reply with one citation of no weight.                             *)
(***************************************************************************)
\* A skill whose id is neither its name nor one of its synonyms, and a job
\* that requires it.
db == <<"d", "b">>

DbSkill == Skill(db, <<"S", "Q", "L">>, <<"d", "a", "t", "a">>, <<>>, {})

Engineer ==
    Job(<<"e", "n", "g", "i", "n", "e", "e", "r">>,
        <<"E", "n", "g", "i", "n", "e", "e", "r">>, None,
        <<SkillRequirement(python, 4, "intermediate"),
          SkillRequirement(db, 6, "intermediate")>>)

PipelineCatalogs ==
    {[skills |-> <<PythonSkill, SqlSkill>>, jobs |-> <<DataScientist, Analyst>>],
     [skills |-> <<SqlSkill, PythonSkill>>, jobs |-> <<Analyst, DataScientist>>],
     [skills |-> <<PythonSkill>>, jobs |-> <<DataScientist, Analyst>>]}

InitPipeline ==
    \E catalog \in PipelineCatalogs :
        /\ skills = catalog.skills
        /\ jobs = catalog.jobs
        /\ skill_relationships =
               [id \in Keys(catalog.skills) |->
                   Lookup(catalog.skills, id).related_skills]
        /\ job_skill_matrix =
               [id \in Keys(catalog.jobs) |->
                   Lookup(catalog.jobs, id).required_skills]
        /\ synonym_index = _build_synonym_index
        /\ _cache = EmptyMap
        /\ ret = NoCall

StrongReply ==
    [kind |-> "ok",
     content |-> <<"G", "r", "o", "w", "t", "h", " ", "i", "n", " ", "2", "0", "2", "5">>,
     citations |-> <<[url |-> <<"b", "l", "s", ".", "g", "o", "v", "/", "o", "o", "h">>],
                     [url |-> <<"i", "n", "d", "e", "e", "d", ".", "c", "o", "m">>],
                     [title |-> <<"F", "o", "r", "b", "e", "s">>]>>]

WeakReply ==
    [kind |-> "ok",
     content |-> <<"s", "t", "a", "b", "l", "e">>,
     citations |-> <<[url |-> <<"x", ".", "c", "o", "m">>], [snippet |-> <<"n">>]>>]

OracleReplies ==
    {[kind |-> k] : k \in OracleFailures} \cup {StrongReply, WeakReply}

PipelineTitles == {DataScientist.title, Analyst.title}

PipelineProfiles ==
    {UserProfile(<<UserSkill(python, "advanced")>>),
     UserProfile(<<UserSkill(python, "advanced"),
                   UserSkill(sql, "beginner")>>)}

PipelineOutlooks ==
    {[code \in {DataScientistCode} |-> p] :
        p \in {None, Projection(Frac(203, 10), 131490, BachelorsDegree),
               Projection(Frac(-61, 10), 0, None),
               Projection(None, 131490, None)}}

FreshKeys == {{}, {cache_key(t) : t \in PipelineTitles}}

NextPipeline ==
    \/ \E t \in {DataScientist.title, <<"d", "a", "t", "a", " ", "s", "c", "i", "e", "n", "t", "i", "s", "t">>},
          reply \in OracleReplies, fresh \in FreshKeys :
           Call_validate_job_outlook(t, None, reply, fresh)
    \/ \E profile \in PipelineProfiles, limit \in {1, 10},
          outlook \in PipelineOutlooks :
           Call_get_career_recommendations(profile, limit, FALSE, outlook,
                                           EmptyMap, {})
    \/ \E profile \in PipelineProfiles, limit \in {1, 10},
          outlook \in PipelineOutlooks,
          replies \in [PipelineTitles -> OracleReplies], fresh \in FreshKeys :
           Call_get_career_recommendations(profile, limit, TRUE, outlook,
                                           replies, fresh)
    \/ TakeResult

SpecPipeline == InitPipeline /\ [][NextPipeline]_vars

(***************************************************************************)
(* The held-skills specification: get_career_recommendations without       *)
(* validation, over catalogs with and without the skill whose id is not    *)
(* its name, for profiles of up to two skills.                             *)
(***************************************************************************)
HeldCatalogs ==
    {[skills |-> <<PythonSkill, DbSkill>>, jobs |-> <<Engineer>>],
     [skills |-> <<DbSkill, SqlSkill>>, jobs |-> <<Analyst, Engineer>>],
     [skills |-> <<PythonSkill, SqlSkill>>, jobs |-> <<DataScientist, Analyst>>]}

InitHeld ==
    \E catalog \in HeldCatalogs :
        /\ skills = catalog.skills
        /\ jobs = catalog.jobs
        /\ skill_relationships =
               [id \in Keys(catalog.skills) |->
                   Lookup(catalog.skills, id).related_skills]
        /\ job_skill_matrix =
               [id \in Keys(catalog.jobs) |->
                   Lookup(catalog.jobs, id).required_skills]
        /\ synonym_index = _build_synonym_index
        /\ _cache = EmptyMap
        /\ ret = NoCall

HeldProfiles ==
    {UserProfile(us) :
        us \in SeqsUpTo({UserSkill(python, "advanced"), UserSkill(sql, "beginner"),
                         UserSkill(db, "expert")}, 2)}

NextHeld ==
    \/ \E profile \in HeldProfiles, limit \in {1, 10},
          outlook \in PipelineOutlooks :
           Call_get_career_recommendations(profile, limit, FALSE, outlook,
                                           EmptyMap, {})
    \/ TakeResult

SpecHeld == InitHeld /\ [][NextHeld]_vars

(***************************************************************************)
(* The export specification: a catalog of up to two skills and two jobs,   *)
(* whose requirement lists are drawn freely, optional requirements among   *)
(* them; a job may be added again with another list.                       *)
(***************************************************************************)
ExportSkillPool ==
    {Skill("python", "Python", "code", <<"py">>, {"sql"}),
     Skill("sql", "SQL", "", <<>>, {})}

ExportReqPool ==
    {SkillRequirement("python", 9, "advanced"),
     SkillRequirement("sql", 7, "intermediate"),
     [SkillRequirement("sql", 3, "beginner") EXCEPT !.is_mandatory = FALSE]}

ExportJobPool ==
    {Job("data_scientist", "Data Scientist", DataScientistCode, rs) :
        rs \in SeqsUpTo(ExportReqPool, MaxReqs)}
    \cup {Job("analyst", "Analyst", None,
                 <<SkillRequirement("sql", 7, "intermediate")>>)}

NextExport ==
    \/ \E s \in ExportSkillPool : add_skill(s)
    \/ \E j \in ExportJobPool : add_job(j)
    \/ Call_export_to_json
    \/ TakeResult

SpecExport == InitOntology /\ [][NextExport]_vars

(***************************************************************************)
(* The shared-ontology specification: one ontology and one matcher on it,  *)
(* with callers of the five matching operations; the catalog grows between *)
(* the calls.                                                              *)
(***************************************************************************)
SharedSkillPool ==
    {Skill("python", <<"P", "y", "t", "h", "o", "n">>, <<"c", "o", "d", "e">>,
           <<<<"p", "y">>>>, {"sql"}),
     Skill("sql", <<"S", "Q", "L">>, <<>>, <<>>, {}),
     Skill("sql", <<"S", "Q", "L">>, <<>>, <<>>, {"python", "stats"})}

SharedReqPool ==
    {SkillRequirement("python", 9, "advanced"),
     SkillRequirement("sql", 7, "intermediate")}

SharedJobPool ==
    {Job("data_scientist", "Data Scientist", None, rs) :
        rs \in SeqsUpTo(SharedReqPool, MaxReqs)}
    \cup {Job("analyst", "Analyst", None,
                 <<SkillRequirement("sql", 7, "intermediate")>>)}

SharedDescriptions == {<<"s", "q", "l">>, <<"p", "y">>, <<"z", "z", "z">>}

SharedUserLists ==
    {<<>>, <<UserSkill("python", "beginner")>>,
     <<UserSkill("python", "expert"), UserSkill("sql", "beginner")>>}

NextShared ==
    \/ \E s \in SharedSkillPool : add_skill(s)
    \/ \E j \in SharedJobPool : add_job(j)
    \/ SkillMatcher_init
    \/ \E ds \in SeqsUpTo(SharedDescriptions, MaxDescriptions) :
           Call_match_user_skills(ds)
    \/ \E ms \in SkillMatchLists, m \in MinScores : Call_find_matching_jobs(ms, m)
    \/ \E a \in MatchSkillIds, b \in MatchSkillIds :
           Call_calculate_skill_similarity(a, b)
    \/ \E us \in SharedUserLists, j \in ScoreJobIds :
           Call_calculate_job_match_score(us, j)
    \/ \E us \in SharedUserLists, j \in ScoreJobIds :
           Call_identify_skill_gaps(us, j)
    \/ TakeResult

SpecShared == InitOntology /\ [][NextShared]_vars

(***************************************************************************)
(* The learner specification: a path is generated for a profile and a      *)
(* recommendation, and a learner follows it, completing each milestone     *)
(* that get_next_milestone returns and asking again, from nothing          *)
(* completed until None is returned.  The learner keeps going.             *)
(***************************************************************************)
NextLearner ==
    \/ \E profile \in GapProfiles, job \in GapJobPool, missing \in MissingPool :
           Call_generate_learning_path(profile,
                                       GapRecommendation(job, missing))
    \/ StartLearning
    \/ CompleteAndAskAgain
    \/ TakeResult

SpecLearner ==
    /\ InitOntology
    /\ [][NextLearner]_vars
    /\ WF_vars(StartLearning)
    /\ WF_vars(CompleteAndAskAgain)

(***************************************************************************)
(* What the claims about job matching speak of.                            *)
(***************************************************************************)
Adjacency(id) == MapGet(skill_relationships, id, {})

MatchedIds == {ret.skill_matches[i].matched_skill.id : i \in 1..Len(ret.skill_matches)}

ReturnedJobMatches ==
    IF ret.result.kind = "return" THEN Range(ret.result.value) ELSE {}

\* Some matched skill is adjacent to r, has r adjacent to it, or is more
\* than 0.6 similar to it.
CoveredByTransferable(r) ==
    \E u \in MatchedIds :
        \/ u \in Adjacency(r)
        \/ r \in Adjacency(u)
        \/ FracGT(calculate_skill_similarity(r, u), Frac(6, 10))

DirectlyMatched(req) == req.skill_id \in MatchedIds

OnlyTransferable(req) ==
    req.skill_id \notin MatchedIds /\ CoveredByTransferable(req.skill_id)

NotCovered(req) ==
    req.skill_id \notin MatchedIds /\ ~CoveredByTransferable(req.skill_id)

\* The importances of the requirements at the places in `at`, summed.
ImportanceAt(reqs, at) ==
    LET RECURSIVE sum(_)
        sum(i) == IF i = 0 THEN 0
                  ELSE sum(i - 1) + (IF i \in at THEN reqs[i].importance ELSE 0)
    IN  sum(Len(reqs))

\* (matched importance + 0.7 x transferable importance) / total importance
ExpectedMatchScore(job) ==
    LET reqs == job.required_skills
    IN  Frac(10 * ImportanceAt(reqs, {i \in 1..Len(reqs) : DirectlyMatched(reqs[i])})
               + 7 * ImportanceAt(reqs, {i \in 1..Len(reqs) : OnlyTransferable(reqs[i])}),
             10 * TotalImportance(reqs))

\* The display name the specification asks for: the skill's name, and the
\* raw id for a skill id that is not in the ontology.
DisplayName(skill_id) ==
    IF skill_id \in Keys(skills) THEN Lookup(skills, skill_id).name ELSE skill_id

\* The display names of the requirements at the places in `at`, in order.
NamesAt(reqs, at) ==
    LET RECURSIVE names(_)
        names(i) == IF i = 0 THEN <<>>
                    ELSE names(i - 1) \o (IF i \in at
                                          THEN <<DisplayName(reqs[i].skill_id)>>
                                          ELSE <<>>)
    IN  names(Len(reqs))

\* A requirement that is not matched and names no skill of the ontology.
Dangling(req) ==
    req.skill_id \notin MatchedIds /\ req.skill_id \notin Keys(skills)

SomeDanglingRequirement ==
    \E i \in 1..Len(jobs) : \E k \in 1..Len(jobs[i].required_skills) :
        Dangling(jobs[i].required_skills[k])

ScoreAndThresholdHold ==
    \A i \in 1..Len(jobs) :
        LET job == jobs[i]
        IN  TotalImportance(job.required_skills) > 0 =>
              /\ FracGE(ExpectedMatchScore(job), ret.min_match_score)
                    <=> (\E jm \in ReturnedJobMatches : jm.job = job)
              /\ \A jm \in ReturnedJobMatches :
                    jm.job = job => FracEQ(jm.match_score, ExpectedMatchScore(job))

BucketsHold ==
    \A jm \in ReturnedJobMatches :
        /\ jm.transferable_skills =
               NamesAt(jm.job.required_skills,
                       {i \in 1..Len(jm.job.required_skills) :
                            OnlyTransferable(jm.job.required_skills[i])})
        /\ jm.missing_skills =
               NamesAt(jm.job.required_skills,
                       {i \in 1..Len(jm.job.required_skills) :
                            NotCovered(jm.job.required_skills[i])})
        /\ FracEQ(jm.match_score, ExpectedMatchScore(jm.job))

(***************************************************************************)
(* C1.  For every list of skill matches and every job whose total          *)
(* importance is positive, find_matching_jobs scores the job (matched      *)
(* importance + 0.7 x transferable importance) / total importance and      *)
(* returns it exactly when that score is at least min_match_score.         *)
(***************************************************************************)
C1_ScoreAndThreshold ==
    ret.op = "find_matching_jobs" => ScoreAndThresholdHold

\* The same, for the calls in which every unmatched requirement names a
\* skill of the ontology.
C1_ScoreAndThreshold_NoDangling ==
    (ret.op = "find_matching_jobs" /\ ~SomeDanglingRequirement) =>
        (ret.result.kind = "return" /\ ScoreAndThresholdHold)

(***************************************************************************)
(* C5.  With a job that requires a skill id missing from the ontology,     *)
(* find_matching_jobs and identify_skill_gaps do not raise, and the name   *)
(* recorded for that requirement is the raw skill id.                      *)
(***************************************************************************)
C5_DanglingIdFallsBackToRawId ==
    /\ ret.op = "find_matching_jobs" =>
          /\ ret.result.kind = "return"
          /\ \A jm \in ReturnedJobMatches :
                \A k \in 1..Len(jm.job.required_skills) :
                    LET req == jm.job.required_skills[k]
                    IN  Dangling(req) =>
                          req.skill_id \in Range(jm.missing_skills)
                                             \cup Range(jm.transferable_skills)
    /\ ret.op = "identify_skill_gaps" =>
          /\ ret.result.kind = "return"
          /\ \A g \in Range(ret.result.value) :
                g.skill_id \notin Keys(skills) => g.skill_name = g.skill_id

\* The two halves of C5, one function each.
C5_FindMatchingJobsDoesNotRaise ==
    ret.op = "find_matching_jobs" => ret.result.kind = "return"

C5_GapNameIsRawId ==
    ret.op = "identify_skill_gaps" =>
        \A g \in Range(ret.result.value) :
            g.skill_id \notin Keys(skills) => g.skill_name = g.skill_id

(***************************************************************************)
(* C9.  A requirement r outside the matched ids gets 0.7 x importance and  *)
(* its skill name under transferable exactly when some matched id u is in  *)
(* r's adjacency set, or has r in its own, or is more than 0.6 similar to  *)
(* r; otherwise its name goes under missing with no credit.                *)
(***************************************************************************)
C9_TransferableCredit ==
    ret.op = "find_matching_jobs" =>
        (ret.result.kind = "return" /\ BucketsHold)

\* The same, for the calls in which every unmatched requirement names a
\* skill of the ontology.
C9_TransferableCredit_NoDangling ==
    (ret.op = "find_matching_jobs" /\ ~SomeDanglingRequirement) =>
        (ret.result.kind = "return" /\ BucketsHold)

\* Two skills that only share neighbours never qualify.
C9_SharedNeighboursNeverQualify ==
    (/\ ret.op = "calculate_skill_similarity"
     /\ ret.skill1_id # ret.skill2_id
     /\ ret.skill1_id \notin Adjacency(ret.skill2_id))
        => ~FracGT(ret.result.value, Frac(6, 10))

(***************************************************************************)
(* C8.  calculate_skill_similarity(a, b) is 1.0 if a = b; else 0.8 if one  *)
(* of the two is in the other's adjacency set, in either direction; else   *)
(* 0.6 x |intersection| / |union| if both sets are non-empty; else 0.0.    *)
(***************************************************************************)
JaccardOrZero(a, b) ==
    IF Adjacency(a) # {} /\ Adjacency(b) # {}
    THEN Frac(6 * Cardinality(Adjacency(a) \cap Adjacency(b)),
              10 * Cardinality(Adjacency(a) \cup Adjacency(b)))
    ELSE Frac(0, 1)

C8_SimilarityEitherDirection ==
    ret.op = "calculate_skill_similarity" =>
        LET a == ret.skill1_id
            b == ret.skill2_id
        IN  FracEQ(ret.result.value,
                   IF a = b THEN Frac(1, 1)
                   ELSE IF a \in Adjacency(b) \/ b \in Adjacency(a) THEN Frac(8, 10)
                   ELSE JaccardOrZero(a, b))

\* C8 as amended: 0.8 only if a is in b's adjacency set.
C8_SimilarityOneDirection ==
    ret.op = "calculate_skill_similarity" =>
        LET a == ret.skill1_id
            b == ret.skill2_id
        IN  FracEQ(ret.result.value,
                   IF a = b THEN Frac(1, 1)
                   ELSE IF a \in Adjacency(b) THEN Frac(8, 10)
                   ELSE JaccardOrZero(a, b))

\* b is in a's set, a is not in b's, and the two share a neighbour: the
\* call went to the Jaccard branch.
C8_Witness ==
    /\ ret.op = "calculate_skill_similarity"
    /\ ret.skill1_id # ret.skill2_id
    /\ ret.skill2_id \in Adjacency(ret.skill1_id)
    /\ ret.skill1_id \notin Adjacency(ret.skill2_id)
    /\ FracEQ(ret.result.value, Frac(3, 10))

(***************************************************************************)
(* What the claims about scoring and gaps speak of.                        *)
(***************************************************************************)
CalledJobRequirements ==
    IF ret.job_id \in Keys(jobs) THEN Lookup(jobs, ret.job_id).required_skills
    ELSE <<>>

HasEntry(skill_id) ==
    \E i \in 1..Len(ret.user_skills) : ret.user_skills[i].skill_id = skill_id

\* The user's level for a skill on the 1..4 scale.
HeldLevel(skill_id) ==
    level_values(
        (CHOOSE u \in Range(ret.user_skills) : u.skill_id = skill_id).proficiency_level)

RequiredLevel(req) == level_values(req.required_level)

HoldsAtLevel(req) ==
    HasEntry(req.skill_id) /\ HeldLevel(req.skill_id) >= RequiredLevel(req)

HoldsEveryRequirement ==
    /\ CalledJobRequirements # <<>>
    /\ \A k \in 1..Len(CalledJobRequirements) : HoldsAtLevel(CalledJobRequirements[k])

ScoreInUnitInterval ==
    /\ FracGE(ret.result.value, Frac(0, 1))
    /\ FracGE(Frac(1, 1), ret.result.value)
    /\ ret.result.value.den > 0

(***************************************************************************)
(* C2.  calculate_job_match_score is in [0,1], is 0 when the job has no    *)
(* requirements, and is 1.0 when the user holds every required skill at or *)
(* above its required level.                                               *)
(***************************************************************************)
C2_ScoreRange ==
    ret.op = "calculate_job_match_score" =>
        /\ ScoreInUnitInterval
        /\ CalledJobRequirements = <<>> => FracEQ(ret.result.value, Frac(0, 1))
        /\ HoldsEveryRequirement => FracEQ(ret.result.value, Frac(1, 1))

\* C2 as amended: 1.0 needs a positive total importance, and a job whose
\* importances are all 0 scores 0.
C2_ScoreRangePositiveTotal ==
    ret.op = "calculate_job_match_score" =>
        /\ ScoreInUnitInterval
        /\ CalledJobRequirements = <<>> => FracEQ(ret.result.value, Frac(0, 1))
        /\ TotalImportance(CalledJobRequirements) = 0 =>
               FracEQ(ret.result.value, Frac(0, 1))
        /\ (HoldsEveryRequirement /\ TotalImportance(CalledJobRequirements) > 0) =>
               FracEQ(ret.result.value, Frac(1, 1))

\* Two requirements of positive importance, both held at or above the
\* required level, one of them above it: the score is 1.
C2_Witness ==
    /\ ret.op = "calculate_job_match_score"
    /\ Len(CalledJobRequirements) = 2
    /\ \A k \in 1..2 : CalledJobRequirements[k].importance > 0
    /\ HoldsEveryRequirement
    /\ \E k \in 1..2 :
          HeldLevel(CalledJobRequirements[k].skill_id)
              > RequiredLevel(CalledJobRequirements[k])
    /\ FracEQ(ret.result.value, Frac(1, 1))

(***************************************************************************)
(* C3.  identify_skill_gaps gives a requirement a gap of exactly 1.0 if    *)
(* and only if the user's list has no entry for the skill, a gap of        *)
(* (required - current) / required for a held skill below the required     *)
(* level and no gap when the level is met; the list is sorted descending   *)
(* by importance x gap_score, ties keeping the requirement order.          *)
(***************************************************************************)
\* What requirement k must give: nothing, or its gap.
RequirementHasGap(req) == ~HoldsAtLevel(req)

RequiredGapScore(req) ==
    IF HasEntry(req.skill_id)
    THEN Frac(RequiredLevel(req) - HeldLevel(req.skill_id), RequiredLevel(req))
    ELSE Frac(1, 1)

GapIsOf(g, req) ==
    /\ g.skill_id = req.skill_id
    /\ g.importance = req.importance
    /\ g.required_level = req.required_level
    /\ FracEQ(g.gap_score, RequiredGapScore(req))
    /\ (g.current_level = "None") <=> ~HasEntry(req.skill_id)
    /\ FracEQ(g.gap_score, Frac(1, 1)) <=> ~HasEntry(req.skill_id)

GapWeight(g) == Frac(g.importance * g.gap_score.num, g.gap_score.den)

C3_GapsSortedStable ==
    ret.op = "identify_skill_gaps" =>
        LET reqs == CalledJobRequirements
            gaps == ret.result.value
            gapped == {k \in 1..Len(reqs) : RequirementHasGap(reqs[k])}
        IN  \E from \in [1..Len(gaps) -> gapped] :
              /\ \A k \in gapped : \E p \in 1..Len(gaps) : from[p] = k
              /\ \A p, q \in 1..Len(gaps) : from[p] = from[q] => p = q
              /\ \A p \in 1..Len(gaps) : GapIsOf(gaps[p], reqs[from[p]])
              /\ \A p, q \in 1..Len(gaps) :
                    p < q =>
                      \/ FracGT(GapWeight(gaps[p]), GapWeight(gaps[q]))
                      \/ /\ FracEQ(GapWeight(gaps[p]), GapWeight(gaps[q]))
                         /\ from[p] < from[q]

\* A missing skill and a held skill below its level weigh the same
\* (0.4 x 1.0 and 0.8 x 2/4) and stay in the requirement order.
C3_Witness ==
    /\ ret.op = "identify_skill_gaps"
    /\ Len(ret.result.value) = 2
    /\ LET g1 == ret.result.value[1]
           g2 == ret.result.value[2]
       IN  /\ g1.skill_id # g2.skill_id
           /\ FracEQ(GapWeight(g1), GapWeight(g2))
           /\ g1.importance # g2.importance
           /\ g1.current_level = "None" /\ g2.current_level # "None"
           /\ CalledJobRequirements[1].skill_id = g1.skill_id

(***************************************************************************)
(* What the claim about the cascade speaks of: whether a stage, taken on   *)
(* its own, has a match for a description.                                 *)
(***************************************************************************)
Normalized(description) == strip(lower(description))

ExactYields(description) ==
    \E i \in 1..Len(skills) : lower(skills[i].name) = Normalized(description)

SynonymYields(description) ==
    /\ Normalized(description) \in DOMAIN synonym_index
    /\ synonym_index[Normalized(description)] # <<>>

FuzzyYields(description) ==
    \E i \in 1..Len(skills) :
        FracGT(name_score(Normalized(description), lower(skills[i].name)),
               FuzzyThreshold)

SemanticYields(description) ==
    LET keywords == _extract_keywords(Normalized(description))
    IN  \E i \in 1..Len(skills) :
            /\ KeywordMatches(keywords, skills[i]) > 0
            /\ FracGT(Frac(KeywordMatches(keywords, skills[i]), Len(keywords)),
                      SemanticThreshold)

FirstStage(description) ==
    IF ExactYields(description) THEN "exact"
    ELSE IF SynonymYields(description) THEN "synonym"
    ELSE IF FuzzyYields(description) THEN "fuzzy"
    ELSE IF SemanticYields(description) THEN "semantic"
    ELSE "none"

\* The skill a description names, the first one in the ontology.
NamedSkill(description) ==
    skills[Min({i \in 1..Len(skills) :
                   lower(skills[i].name) = Normalized(description)})]

(***************************************************************************)
(* C4.  The match match_user_skills reports for a description comes from   *)
(* the first stage, in the order exact, synonym, fuzzy, semantic, that has *)
(* a match for it (and a description no stage matches is left out); a      *)
(* description that is one skill's name and a synonym of another resolves  *)
(* to the skill of that name, with type exact and score 1.0.               *)
(***************************************************************************)
C4_CascadePrecedence ==
    ret.op = "match_user_skills" =>
        LET kept == SelectSeq(ret.user_descriptions,
                              LAMBDA d : FirstStage(d) # "none")
            matches == ret.result.value
        IN  /\ Len(matches) = Len(kept)
            /\ \A k \in 1..Len(kept) :
                  /\ matches[k].user_term = kept[k]
                  /\ matches[k].match_type = FirstStage(kept[k])
                  /\ ExactYields(kept[k]) =>
                        /\ matches[k].matched_skill = NamedSkill(kept[k])
                        /\ FracEQ(matches[k].match_score, Whole(1))

\* One call with a description that is the name of SQL and a synonym of DB,
\* resolved to SQL, and a description only the semantic stage matches.
C4_Witness ==
    /\ ret.op = "match_user_skills"
    /\ Len(ret.result.value) = 2
    /\ LET d1 == ret.user_descriptions[1]
           d2 == ret.user_descriptions[2]
           m1 == ret.result.value[1]
           m2 == ret.result.value[2]
       IN  /\ ExactYields(d1) /\ SynonymYields(d1) /\ FuzzyYields(d1)
           /\ synonym_index[Normalized(d1)][1] # NamedSkill(d1).id
           /\ m1.match_type = "exact" /\ m1.matched_skill.id = "sql"
           /\ ~ExactYields(d2) /\ ~SynonymYields(d2) /\ ~FuzzyYields(d2)
           /\ m2.match_type = "semantic"

(***************************************************************************)
(* C7.  Unless the fallback was taken, every prerequisite of a milestone   *)
(* of the returned list that is the skill name of a milestone of the list  *)
(* has a milestone at an earlier index than that milestone.                *)
(***************************************************************************)
HasMilestone(list, skill_name) ==
    \E j \in 1..Len(list) : list[j].skill_name = skill_name

HasMilestoneBefore(list, i, skill_name) ==
    \E j \in 1..(i - 1) : list[j].skill_name = skill_name

C7_PrerequisitesEarlier ==
    (ret.op = "_optimize_learning_sequence" /\ ~ret.fallback) =>
        LET optimized == ret.result.value
        IN  \A i \in 1..Len(optimized) :
                \A p \in Range(optimized[i].prerequisites) :
                    HasMilestone(optimized, p) =>
                        HasMilestoneBefore(optimized, i, p)

\* Three skills resolved over two passes: the milestone given first has two
\* prerequisites, one of which has a prerequisite of its own, and comes last.
C7_Witness ==
    /\ ret.op = "_optimize_learning_sequence"
    /\ ~ret.fallback
    /\ Len(ret.result.value) = 3
    /\ Cardinality({m.skill_name : m \in Range(ret.milestones)}) = 3
    /\ ret.result.value[3] = ret.milestones[1]
    /\ Len(ret.result.value[3].prerequisites) = 2
    /\ \A p \in Range(ret.result.value[3].prerequisites) :
           HasMilestone(ret.result.value, p)
    /\ ret.result.value[2] = ret.milestones[2]
    /\ ret.result.value[2].prerequisites = <<ret.result.value[1].skill_name>>

(***************************************************************************)
(* C6.  When the oracle's call for a job's title fails, no exception of    *)
(* the oracle reaches get_career_recommendations (the call raises only if  *)
(* it raises without validation too) and the recommendation for that job   *)
(* has the confidence _create_recommendation gives the same job match and  *)
(* projection with no validation.                                          *)
(***************************************************************************)
OracleFailed(title) ==
    /\ ret.replies[title].kind \in OracleFailures
    /\ ~(/\ cache_key(title) \in DOMAIN ret.cache_before
         /\ cache_key(title) \in ret.fresh_keys)

Unvalidated(recommendation) ==
    _create_recommendation(recommendation.job, recommendation.skill_match,
                           recommendation.market_data, None)

C6_OracleFailureIsNoData ==
    (ret.op = "get_career_recommendations" /\ ret.validate_with_perplexity) =>
        IF ret.result.kind = "raise"
        THEN get_career_recommendations(ret.user_profile, ret.limit, FALSE,
                                        ret.outlook, ret.replies,
                                        {}).result.kind = "raise"
        ELSE \A i \in 1..Len(ret.result.value) :
                 OracleFailed(ret.result.value[i].job.title) =>
                     FracEQ(ret.result.value[i].confidence,
                            Unvalidated(ret.result.value[i]).value.confidence)

(***************************************************************************)
(* C10.  With no validation, _create_recommendation returns a              *)
(* recommendation whose confidence is 0.6 x match_score + 0.4 x m, where m *)
(* is 0.5 without a growth figure or with a growth of 0,                   *)
(* min(0.9, 0.5 + g/50) for a growth g > 0 and max(0.1, 0.5 + g/100) for a *)
(* growth g < 0.                                                           *)
(***************************************************************************)
GrowthFigure(bls_projection) ==
    IF bls_projection = None THEN None ELSE bls_projection.change_percent

StatedMarketConfidence(g) ==
    IF g = None \/ g.num = 0 THEN Frac(5, 10)
    ELSE IF Positive(g)
    THEN FracMin(Frac(9, 10), FracAdd(Frac(5, 10), FracDiv(g, Whole(50))))
    ELSE FracMax(Frac(1, 10), FracAdd(Frac(5, 10), FracDiv(g, Whole(100))))

C10_ConfidenceFromGrowth ==
    (ret.op = "_create_recommendation" /\ ret.market_validation = None) =>
        /\ ret.result.kind = "return"
        /\ FracEQ(ret.result.value.confidence,
                  FracAdd(FracMul(Frac(6, 10), ret.job_match.match_score),
                          FracMul(Frac(4, 10),
                                  StatedMarketConfidence(
                                      GrowthFigure(ret.bls_projection)))))

(***************************************************************************)
(* C11.  The market confidence m of the growth step becomes                *)
(* min(0.95, m + 0.2) under a recent validation of confidence >= 0.7 (as   *)
(* stated) or > 0.7 (as amended), max(0.2, m - 0.2) under a validation of  *)
(* confidence < 0.4, and stays m under any other validation or none.  The  *)
(* recommendation's confidence is 0.6 x match_score + 0.4 x that value, so *)
(* it shows the market confidence.                                         *)
(***************************************************************************)
StatedRaise(m) ==
    FracMin(Frac(95, 100), FracAdd(m, Frac(2, 10)))

StatedCut(m) ==
    FracMax(Frac(2, 10), FracSub(m, Frac(2, 10)))

ShowsMarketConfidence(m) ==
    FracEQ(ret.result.value.confidence,
           FracAdd(FracMul(Frac(6, 10), ret.job_match.match_score),
                   FracMul(Frac(4, 10), m)))

RecommendationReturned ==
    ret.op = "_create_recommendation" /\ ret.result.kind = "return"

C11_ValidationNudges ==
    RecommendationReturned =>
        LET m == StatedMarketConfidence(GrowthFigure(ret.bls_projection))
            v == ret.market_validation
        IN  IF v = None THEN ShowsMarketConfidence(m)
            ELSE IF FracGE(v.confidence, Frac(7, 10)) /\ v.is_current
            THEN ShowsMarketConfidence(StatedRaise(m))
            ELSE IF FracGT(Frac(4, 10), v.confidence)
            THEN ShowsMarketConfidence(StatedCut(m))
            ELSE ShowsMarketConfidence(m)

C11_ValidationNudgesAboveSeven ==
    RecommendationReturned =>
        LET m == StatedMarketConfidence(GrowthFigure(ret.bls_projection))
            v == ret.market_validation
        IN  IF v = None THEN ShowsMarketConfidence(m)
            ELSE IF FracGT(v.confidence, Frac(7, 10)) /\ v.is_current
            THEN ShowsMarketConfidence(StatedRaise(m))
            ELSE IF FracGT(Frac(4, 10), v.confidence)
            THEN ShowsMarketConfidence(StatedCut(m))
            ELSE ShowsMarketConfidence(m)

\* A recent validation of confidence exactly 0.7 on a growth of 5 percent:
\* the market confidence stays 0.6.
C11_Witness ==
    /\ RecommendationReturned
    /\ ret.market_validation # None
    /\ FracEQ(ret.market_validation.confidence, Frac(7, 10))
    /\ ret.market_validation.is_current
    /\ ret.bls_projection # None
    /\ ret.bls_projection.change_percent = Whole(5)
    /\ ShowsMarketConfidence(Frac(6, 10))

(***************************************************************************)
(* C12.  A step of add_skill(s) stores s under s.id, keeps every other     *)
(* skill, sets the adjacency set of s.id to s.related_skills and keeps the *)
(* adjacency set of every other id; a step of add_skill or add_job with a  *)
(* record the store already holds changes nothing.                         *)
(***************************************************************************)
SkillUpserted(s) ==
    /\ Keys(skills') = Keys(skills) \cup {s.id}
    /\ Lookup(skills', s.id) = s
    /\ \A id \in Keys(skills) \ {s.id} :
           Lookup(skills', id) = Lookup(skills, id)
    /\ DOMAIN skill_relationships' = DOMAIN skill_relationships \cup {s.id}
    /\ skill_relationships'[s.id] = s.related_skills
    /\ \A id \in DOMAIN skill_relationships \ {s.id} :
           skill_relationships'[id] = skill_relationships[id]
    /\ UNCHANGED <<jobs, job_skill_matrix>>

JobUpserted(j) ==
    /\ Keys(jobs') = Keys(jobs) \cup {j.id}
    /\ Lookup(jobs', j.id) = j
    /\ \A id \in Keys(jobs) \ {j.id} : Lookup(jobs', id) = Lookup(jobs, id)
    /\ DOMAIN job_skill_matrix' = DOMAIN job_skill_matrix \cup {j.id}
    /\ job_skill_matrix'[j.id] = j.required_skills
    /\ \A id \in DOMAIN job_skill_matrix \ {j.id} :
           job_skill_matrix'[id] = job_skill_matrix[id]
    /\ UNCHANGED <<skills, skill_relationships>>

AddSkillStep ==
    \A s \in MatchSkillPool :
        add_skill(s) =>
            /\ SkillUpserted(s)
            /\ s \in Range(skills) => UNCHANGED ontology

AddJobStep ==
    \A j \in MatchJobPool :
        add_job(j) =>
            /\ JobUpserted(j)
            /\ j \in Range(jobs) => UNCHANGED ontology

C12_UpsertOneDirection == [][AddSkillStep /\ AddJobStep]_vars

\* Python was added listing SQL, and SQL's set does not hold Python.
C12_Witness ==
    /\ Keys(skills) = {"python", "sql"}
    /\ skill_relationships["python"] = {"sql"}
    /\ "python" \notin skill_relationships["sql"]
    /\ jobs # <<>>

(***************************************************************************)
(* C13.  prioritize_skills lists, in the order of the gaps, the names of   *)
(* the gaps of importance > 0.5 or gap_score >= 1.0 as priority skills and *)
(* the names of the other gaps as optional skills; and no skill name is    *)
(* both a priority skill and an optional skill of a path built by          *)
(* generate_learning_path.                                                 *)
(***************************************************************************)
StatedPriority(gap) ==
    gap.importance > 5 \/ FracGE(gap.gap_score, Whole(1))

NamesWhere(gaps, at) ==
    LET kept == SelectSeq([i \in 1..Len(gaps) |-> i], LAMBDA i : i \in at)
    IN  [k \in 1..Len(kept) |-> gaps[kept[k]].skill_name]

C13_PriorityRule ==
    ret.op = "prioritize_skills" =>
        /\ ret.result.value.priority_skills =
               NamesWhere(ret.gaps, {i \in 1..Len(ret.gaps) :
                                       StatedPriority(ret.gaps[i])})
        /\ ret.result.value.optional_skills =
               NamesWhere(ret.gaps, {i \in 1..Len(ret.gaps) :
                                       ~StatedPriority(ret.gaps[i])})

C13_NoNameInBothBuckets ==
    ret.op = "generate_learning_path" =>
        Range(ret.result.value.priority_skills)
            \cap Range(ret.result.value.optional_skills) = {}

C13_PriorityBuckets == C13_PriorityRule /\ C13_NoNameInBothBuckets

(***************************************************************************)
(* C14.  analyze_skill_gaps returns one gap of gap_score 1.0 and no        *)
(* current level for every name in missing_skills, with the importance and *)
(* the required level of the job's requirement for the skill of that name  *)
(* if the job has one and 0.8 / intermediate otherwise; one gap of         *)
(* gap_score (required - current) / required for every requirement the     *)
(* user holds below its level; and the gaps in descending order of         *)
(* importance x gap_score.                                                 *)
(***************************************************************************)
\* The id of the skill with a display name, in the catalog the jobs of the
\* gap specification take their requirements from.
SkillNamed(name) ==
    CASE name = MachineLearning -> machine_learning
      [] name = SQL -> sql
      [] name = Python -> python
      [] OTHER -> replace_blanks(lower(name))

RequirementsFor(name, job) ==
    {req \in Range(job.required_skills) : req.skill_id = SkillNamed(name)}

MissingGapAsStated(gap, job) ==
    /\ FracEQ(gap.gap_score, Whole(1))
    /\ IF RequirementsFor(gap.skill_name, job) # {}
       THEN \E req \in RequirementsFor(gap.skill_name, job) :
                /\ gap.importance = req.importance
                /\ gap.required_level = req.required_level
       ELSE gap.importance = 8 /\ gap.required_level = "intermediate"

HeldBelow(req, user_skills) ==
    /\ req.skill_id \in UserSkillIds(user_skills)
    /\ level_values(UserSkillDictEntry(user_skills,
                                       req.skill_id).proficiency_level)
           < level_values(req.required_level)

LevelGapAsStated(gap, req, user_skills) ==
    /\ gap.skill_id = req.skill_id
    /\ gap.required_level = req.required_level
    /\ gap.importance = req.importance
    /\ gap.current_level =
           UserSkillDictEntry(user_skills, req.skill_id).proficiency_level
    /\ FracEQ(gap.gap_score,
              Frac(level_values(req.required_level)
                       - level_values(gap.current_level),
                   level_values(req.required_level)))

C14_GapsOfRecommendation ==
    ret.op = "analyze_skill_gaps" =>
        LET gaps == ret.result.value
            job == ret.target_recommendation.job
            missing == ret.target_recommendation.skill_match.missing_skills
            held == ret.user_profile.skills
            missing_at == {i \in 1..Len(gaps) : gaps[i].current_level = "None"}
            level_at == {i \in 1..Len(gaps) : gaps[i].current_level # "None"}
            below == {k \in 1..Len(job.required_skills) :
                         HeldBelow(job.required_skills[k], held)}
        IN  /\ \A name \in Range(missing) :
                   Cardinality({i \in missing_at : gaps[i].skill_name = name})
                       = Cardinality({k \in 1..Len(missing) : missing[k] = name})
            /\ \A i \in missing_at : MissingGapAsStated(gaps[i], job)
            /\ Cardinality(level_at) = Cardinality(below)
            /\ \A k \in below :
                   \E i \in level_at :
                       LevelGapAsStated(gaps[i], job.required_skills[k], held)
            /\ \A i \in 1..(Len(gaps) - 1) :
                   FracGE(GapKey(gaps[i]), GapKey(gaps[i + 1]))

(***************************************************************************)
(* C15.  A list returned by get_career_recommendations has at most `limit` *)
(* recommendations, and they are in descending order of confidence; of two *)
(* neighbours of equal confidence the first has the match score that is    *)
(* not the lower one.                                                      *)
(***************************************************************************)
RecommendationsReturned ==
    ret.op = "get_career_recommendations" /\ ret.result.kind = "return"

InStatedOrder(first, second) ==
    \/ FracGT(first.confidence, second.confidence)
    \/ /\ FracEQ(first.confidence, second.confidence)
       /\ FracGE(first.match_score, second.match_score)

JobMatchesReturned ==
    ret.op = "find_matching_jobs" /\ ret.result.kind = "return"

CatalogPlace(job) == CHOOSE k \in 1..Len(jobs) : jobs[k].id = job.id

C16_ByScoreThenCatalogOrder ==
    JobMatchesReturned =>
        \A i, j \in 1..Len(ret.result.value) :
            i < j =>
                \/ FracGT(ret.result.value[i].match_score,
                          ret.result.value[j].match_score)
                \/ /\ FracEQ(ret.result.value[i].match_score,
                             ret.result.value[j].match_score)
                   /\ CatalogPlace(ret.result.value[i].job)
                          < CatalogPlace(ret.result.value[j].job)

\* Two jobs come back with the same score.
C16_Witness ==
    /\ JobMatchesReturned
    /\ Len(ret.result.value) = 2
    /\ FracEQ(ret.result.value[1].match_score, ret.result.value[2].match_score)

(***************************************************************************)
(* C17.  The actions of a recommendation are at most 5: a 'Learn' action   *)
(* for each of the first 3 missing skills of the match, in their order,    *)
(* then the transferable-skills action exactly when the match has          *)
(* transferable skills, then the education action exactly when the         *)
(* projection names a typical education; every action after these is none  *)
(* of the three kinds.                                                     *)
(***************************************************************************)
SpecificKinds == {"Learn", "Highlight transferable skills", "Consider"}

C17_SpecificActionsFirst ==
    RecommendationReturned =>
        LET actions == ret.result.value.recommended_actions
            missing == ret.job_match.missing_skills
            learnt == IF Len(missing) < 3 THEN Len(missing) ELSE 3
            transfers ==
                IF ret.job_match.transferable_skills # <<>> THEN 1 ELSE 0
            studies ==
                IF /\ ret.bls_projection # None
                   /\ ret.bls_projection.typical_education # None
                THEN 1 ELSE 0
            specific == learnt + transfers + studies
        IN  /\ Len(actions) <= 5
            /\ Len(actions) >= specific
            /\ \A i \in 1..learnt :
                   /\ actions[i].action = "Learn"
                   /\ actions[i].skill = missing[i]
            /\ transfers = 1 =>
                   actions[learnt + 1].action = "Highlight transferable skills"
            /\ studies = 1 =>
                   actions[learnt + transfers + 1].action = "Consider"
            /\ \A i \in (specific + 1)..Len(actions) :
                   actions[i].action \notin SpecificKinds

\* Four skills are missing, some transfer and the projection names an
\* education: the five actions are all specific ones.
C17_Witness ==
    /\ RecommendationReturned
    /\ Len(ret.job_match.missing_skills) = 4
    /\ ret.job_match.transferable_skills # <<>>
    /\ ret.bls_projection # None
    /\ ret.bls_projection.typical_education # None
    /\ Len(ret.result.value.recommended_actions) = 5
    /\ ret.result.value.recommended_actions[5].action = "Consider"

(***************************************************************************)
(* C18.  For a job id that is not in the catalog calculate_job_match_score *)
(* returns 0.0 and identify_skill_gaps returns the empty list;             *)
(* find_matching_jobs returns the empty list while the catalog has no job; *)
(* none of the three raises.                                               *)
(***************************************************************************)
UnknownJob(job_id) == \A k \in 1..Len(jobs) : jobs[k].id # job_id

C18_UnknownJobIsEmpty ==
    /\ (ret.op = "calculate_job_match_score" /\ UnknownJob(ret.job_id)) =>
           /\ ret.result.kind = "return"
           /\ ret.result.value.num = 0
    /\ (ret.op = "identify_skill_gaps" /\ UnknownJob(ret.job_id)) =>
           /\ ret.result.kind = "return"
           /\ ret.result.value = <<>>
    /\ (ret.op = "find_matching_jobs" /\ jobs = <<>>) =>
           /\ ret.result.kind = "return"
           /\ ret.result.value = <<>>

\* The score of a job that was never added is asked for, of a user with
\* skills, while the catalog holds another job.
C18_Witness ==
    /\ ret.op = "calculate_job_match_score"
    /\ ret.user_skills # <<>>
    /\ jobs # <<>>
    /\ UnknownJob(ret.job_id)

(***************************************************************************)
(* C19.  The growth outlook of a growth percent g is 'excellent' when      *)
(* g >= 15, 'good' when 7 <= g < 15, 'fair' when 0 <= g < 7 and 'poor'     *)
(* when g < 0; it is 'fair' when there is no projection or the projection  *)
(* has no growth figure.                                                   *)
(***************************************************************************)
StatedOutlook(g) ==
    IF g = None THEN "fair"
    ELSE IF g.num >= 15 * g.den THEN "excellent"
    ELSE IF g.num >= 7 * g.den THEN "good"
    ELSE IF g.num >= 0 THEN "fair"
    ELSE "poor"

C19_OutlookOfGrowth ==
    ret.op = "_determine_growth_outlook" =>
        /\ ret.result.kind = "return"
        /\ ret.result.value = StatedOutlook(GrowthFigure(ret.bls_projection))

\* A growth of exactly 15 percent is rated.
C19_Witness ==
    /\ ret.op = "_determine_growth_outlook"
    /\ ret.bls_projection # None
    /\ ret.bls_projection.change_percent = Whole(15)
    /\ ret.result.value = "excellent"

(***************************************************************************)
(* C20.  match_user_skills returns one SkillMatch for each input that some *)
(* stage matches and nothing for the other inputs, in the order of the     *)
(* inputs, each with its input string, as given, as user_term; so the      *)
(* output is never longer than the input.                                  *)
(***************************************************************************)
SomeStageYields(description) ==
    \/ _exact_match(description) # None
    \/ _synonym_match(description) # None
    \/ _fuzzy_match(description) # None
    \/ _semantic_match(description) # None

\* The k-th smallest member of a set of indices.
Kth(indices, k) ==
    CHOOSE i \in indices : Cardinality({j \in indices : j < i}) = k - 1

InInputOrder(matches, user_descriptions, yielding) ==
    /\ Len(matches) = Cardinality(yielding)
    /\ Len(matches) <= Len(user_descriptions)
    /\ \A k \in 1..Len(matches) :
           matches[k].user_term = user_descriptions[Kth(yielding, k)]

C20_OneMatchPerInputInOrder ==
    ret.op = "match_user_skills" =>
        /\ ret.result.kind = "return"
        /\ InInputOrder(ret.result.value, ret.user_descriptions,
                        {i \in 1..Len(ret.user_descriptions) :
                            SomeStageYields(ret.user_descriptions[i])})

\* Of two inputs the first matches nothing and the second, given with
\* blanks around it, matches: one SkillMatch comes back, with the blanks.
C20_Witness ==
    /\ ret.op = "match_user_skills"
    /\ Len(ret.user_descriptions) = 2
    /\ ~SomeStageYields(ret.user_descriptions[1])
    /\ Len(ret.result.value) = 1
    /\ ret.result.value[1].user_term = <<" ", "P", "y", "t", "h", "o", "n", " ">>

(***************************************************************************)
(* C21.  The ontology read back from an exported document has the skill    *)
(* ids and the job ids of the exported ontology and, for every job, its    *)
(* requirement list: the same requirements (skill id, importance, required *)
(* level, mandatory flag) in the same order.                               *)
(***************************************************************************)
IdsOf(records) == {records[i].id : i \in 1..Len(records)}

RequirementsOf(records, id) ==
    records[CHOOSE i \in 1..Len(records) : records[i].id = id].required_skills

SameRequirement(a, b) ==
    /\ a.skill_id = b.skill_id
    /\ a.importance = b.importance
    /\ a.required_level = b.required_level
    /\ a.is_mandatory = b.is_mandatory

SameCatalog(read) ==
    /\ IdsOf(read.skills) = IdsOf(skills)
    /\ IdsOf(read.jobs) = IdsOf(jobs)
    /\ \A id \in IdsOf(jobs) :
           /\ Len(RequirementsOf(read.jobs, id)) = Len(RequirementsOf(jobs, id))
           /\ \A k \in 1..Len(RequirementsOf(jobs, id)) :
                  SameRequirement(RequirementsOf(read.jobs, id)[k],
                                  RequirementsOf(jobs, id)[k])

MatchingOperations ==
    {"match_user_skills", "find_matching_jobs", "calculate_skill_similarity",
     "calculate_job_match_score", "identify_skill_gaps"}

MatchingCallStep == Idle /\ ret'.op \in MatchingOperations

OntologyAsItWas ==
    /\ skills' = skills
    /\ jobs' = jobs
    /\ skill_relationships' = skill_relationships
    /\ job_skill_matrix' = job_skill_matrix
    /\ synonym_index' = synonym_index

ThreeBuckets(job_match) ==
    Len(job_match.matched_skills) + Len(job_match.transferable_skills)
        + Len(job_match.missing_skills)
        = Len(job_match.job.required_skills)

UnitScore(job_match) ==
    /\ job_match.match_score.den > 0
    /\ job_match.match_score.num >= 0
    /\ job_match.match_score.num <= job_match.match_score.den

C23_BucketsPartitionRequirements ==
    JobMatchesReturned =>
        \A k \in 1..Len(ret.result.value) :
            /\ ThreeBuckets(ret.result.value[k])
            /\ UnitScore(ret.result.value[k])

\* A job with two requirements comes back, one matched and one covered by a
\* transferable skill, with a score short of 1.
C23_Witness ==
    /\ JobMatchesReturned
    /\ \E k \in 1..Len(ret.result.value) :
           /\ Len(ret.result.value[k].matched_skills) = 1
           /\ Len(ret.result.value[k].transferable_skills) = 1
           /\ ret.result.value[k].match_score.num
                  < ret.result.value[k].match_score.den

(***************************************************************************)
(* C24.  Whatever skills were added, before or after the matcher was       *)
(* built, a string that find_skill_by_name resolves to a skill is resolved *)
(* by match_user_skills to that skill, as an 'exact' or a 'synonym' match. *)
(***************************************************************************)
ResolvedAs(matches, user_term, skill) ==
    \E k \in 1..Len(matches) :
        /\ matches[k].user_term = user_term
        /\ matches[k].matched_skill = skill
        /\ matches[k].match_type \in {"exact", "synonym"}

C24_MatcherAgreesWithOntology ==
    ret.op = "match_user_skills" =>
        \A i \in 1..Len(ret.user_descriptions) :
            find_skill_by_name(ret.user_descriptions[i]) # None =>
                ResolvedAs(ret.result.value, ret.user_descriptions[i],
                           find_skill_by_name(ret.user_descriptions[i]))

(***************************************************************************)
(* C25.  A learner who starts with nothing completed and completes each    *)
(* milestone that get_next_milestone returns, on a path that               *)
(* generate_learning_path built, is given every milestone of the path:     *)
(* when None is returned, each milestone of the path has been returned and *)
(* completed.                                                              *)
(***************************************************************************)
LearnerIsTold ==
    ret.op = "get_next_milestone" /\ ret.result.value = None

EveryMilestoneCompleted ==
    \A i \in 1..Len(ret.learning_path.milestones) :
        ret.learning_path.milestones[i].skill_name
            \in Range(ret.completed_skills)

C25_LearnerCompletesThePath == LearnerIsTold => EveryMilestoneCompleted

(***************************************************************************)
(* C26.  get_next_milestone returns the first milestone, in the order of   *)
(* the path, whose skill name is not among the completed skills and whose  *)
(* prerequisites all are, and None when the path has no such milestone; so *)
(* it never returns a completed milestone or one with a prerequisite that  *)
(* is not completed.                                                       *)
(***************************************************************************)
CanBeTaken(milestone, completed_skills) ==
    /\ \A k \in 1..Len(completed_skills) :
           completed_skills[k] # milestone.skill_name
    /\ \A p \in 1..Len(milestone.prerequisites) :
           \E k \in 1..Len(completed_skills) :
               completed_skills[k] = milestone.prerequisites[p]

IsFirstThatCanBeTaken(milestones, i, completed_skills) ==
    /\ CanBeTaken(milestones[i], completed_skills)
    /\ \A j \in 1..(i - 1) : ~CanBeTaken(milestones[j], completed_skills)

C26_NextIsFirstUnblocked ==
    ret.op = "get_next_milestone" =>
        IF \E i \in 1..Len(ret.learning_path.milestones) :
               CanBeTaken(ret.learning_path.milestones[i], ret.completed_skills)
        THEN \E i \in 1..Len(ret.learning_path.milestones) :
                 /\ IsFirstThatCanBeTaken(ret.learning_path.milestones, i,
                                          ret.completed_skills)
                 /\ ret.result.value = ret.learning_path.milestones[i]
        ELSE ret.result.value = None

\* The first milestone of the path waits for a prerequisite, the second is
\* completed, and the third is returned.
C26_Witness ==
    /\ ret.op = "get_next_milestone"
    /\ Len(ret.learning_path.milestones) = 3
    /\ ret.learning_path.milestones[1].prerequisites # <<>>
    /\ ~CanBeTaken(ret.learning_path.milestones[1], ret.completed_skills)
    /\ ret.learning_path.milestones[2].skill_name \in Range(ret.completed_skills)
    /\ ret.result.value = ret.learning_path.milestones[3]
    /\ ret.learning_path.milestones[3] # ret.learning_path.milestones[1]

(***************************************************************************)
(* C30.  _optimize_learning_sequence returns, for every list of            *)
(* milestones, a list holding exactly the milestones of its input, each as *)
(* often as the input holds it, also when prerequisites form a cycle or    *)
(* name skills that are not in the list.                                   *)
(***************************************************************************)
Occurrences(list, x) == Cardinality({k \in 1..Len(list) : list[k] = x})

SameMilestones(given, result) ==
    /\ Len(result) = Len(given)
    /\ \A x \in Range(given) \cup Range(result) :
           Occurrences(result, x) = Occurrences(given, x)

C30_SequenceIsPermutation ==
    ret.op = "_optimize_learning_sequence" =>
        /\ ret.result.kind = "return"
        /\ SameMilestones(ret.milestones, ret.result.value)

\* Three milestones, one waiting for itself, one for a skill outside the
\* list and one free: the free one moves to the front and the others follow.
C30_Witness ==
    /\ ret.op = "_optimize_learning_sequence"
    /\ ret.fallback
    /\ Len(ret.milestones) = 3
    /\ ret.milestones[1].prerequisites = <<ret.milestones[1].skill_name>>
    /\ ret.milestones[2].prerequisites = <<"Linux">>
    /\ ret.milestones[3].prerequisites = <<>>
    /\ ret.result.value[1] = ret.milestones[3]

(***************************************************************************)
(* C27.  get_career_recommendations takes every skill of the profile whose *)
(* skill_id is the id of a skill of the ontology as held: in each          *)
(* recommendation every requirement of the job on such an id is among the  *)
(* directly matched skills and counts with its whole importance, whatever  *)
(* the name and the synonyms of the skill are.                             *)
(***************************************************************************)
HeldIds ==
    {ret.user_profile.skills[i].skill_id :
        i \in 1..Len(ret.user_profile.skills)} \cap Keys(skills)

HeldImportance(job) ==
    TotalImportance(SelectSeq(job.required_skills,
                              LAMBDA req : req.skill_id \in HeldIds))

CountsHeldSkills(recommendation) ==
    /\ \A k \in 1..Len(recommendation.job.required_skills) :
           recommendation.job.required_skills[k].skill_id \in HeldIds =>
               \E m \in 1..Len(recommendation.skill_match.matched_skills) :
                   recommendation.skill_match.matched_skills[m].matched_skill.id
                       = recommendation.job.required_skills[k].skill_id
    /\ FracGE(recommendation.match_score,
              Frac(HeldImportance(recommendation.job),
                   TotalImportance(recommendation.job.required_skills)))

C27_ProfileIdsAreHeld ==
    RecommendationsReturned =>
        \A i \in 1..Len(ret.result.value) : CountsHeldSkills(ret.result.value[i])

(***************************************************************************)
(* C28.  For a projection that is present but carries no growth figure,    *)
(* _create_recommendation does not raise: it returns a recommendation      *)
(* whose growth outlook is 'fair' and whose market confidence, before any  *)
(* validation, is the neutral 0.5.                                         *)
(***************************************************************************)
ProjectionWithoutGrowth ==
    /\ ret.op = "_create_recommendation"
    /\ ret.bls_projection # None
    /\ ret.bls_projection.change_percent = None

C28_NoGrowthFigureIsNeutral ==
    ProjectionWithoutGrowth =>
        /\ ret.result.kind = "return"
        /\ ret.result.value.growth_outlook = "fair"
        /\ ret.market_validation = None =>
               FracEQ(ret.result.value.confidence,
                      FracAdd(FracMul(Frac(6, 10), ret.job_match.match_score),
                              Frac(2, 10)))

(***************************************************************************)
(* C29.  A validation of confidence below 0.4 never leaves a               *)
(* recommendation more confident than the same call without validation,    *)
(* and a recent validation of confidence above 0.7 never leaves it less    *)
(* confident.                                                              *)
(***************************************************************************)
WithoutValidation ==
    _create_recommendation(ret.job, ret.job_match, ret.bls_projection, None)

C29_ValidationMovesOneWay ==
    (RecommendationReturned /\ ret.market_validation # None) =>
        /\ WithoutValidation.kind = "return"
        /\ FracGT(Frac(4, 10), ret.market_validation.confidence) =>
               FracGE(WithoutValidation.value.confidence,
                      ret.result.value.confidence)
        /\ (/\ FracGT(ret.market_validation.confidence, Frac(7, 10))
            /\ ret.market_validation.is_current) =>
               FracGE(ret.result.value.confidence,
                      WithoutValidation.value.confidence)

====
